---- MODULE Spec2Model ----
(***************************************************************************)
(* Model of the transaction processing pipeline of financial_consolidator: *)
(* configuration loading, normalisation, rule / override / correction      *)
(* categorisation with confidence scoring, AI categorisation and           *)
(* validation, and duplicate detection.                                    *)
(*                                                                         *)
(* Conventions.  A Python str is a sequence of one-character strings.      *)
(* An exact Decimal amount is an integer number of mills (1/1000 of a      *)
(* currency unit).  A confidence is an integer number of thousandths.      *)
(* A date is a day of January 2024.  None is the string "None" for         *)
(* optional strings and NoLine / NoBalance for optional numbers.           *)
(***************************************************************************)
EXTENDS Integers, Sequences, FiniteSets, TLC

\* ------------------------------------------------------------------------
\* Bounds of the model
\* ------------------------------------------------------------------------
MaxTxns == 2
MaxRules == 2
MaxOverrides == 2
MaxItems == 2
MaxDedup == 3
MaxBalance == 3
MaxAnomaly == 3
MaxOvershoot == 60
MaxReport == 3
MaxRequests == 4

\* ------------------------------------------------------------------------
\* Python values
\* ------------------------------------------------------------------------
None == "None"
NoLine == -1

Min(a, b) == IF a <= b THEN a ELSE b
Max(a, b) == IF a >= b THEN a ELSE b
Abs(a) == IF a < 0 THEN -a ELSE a

\* the printable ASCII characters in code point order, the first being
\* U+0020
\* chr(32) .. chr(126); the grave accent (96) is spelled out
Ascii ==
    <<
       " ", "!", "\"", "#", "$", "%", "&", "'", "(", ")", "*", "+", ",", "-", ".", "/",
       "0", "1", "2", "3", "4", "5", "6", "7", "8", "9", ":", ";", "<", "=", ">", "?",
       "@", "A", "B", "C", "D", "E", "F", "G", "H", "I", "J", "K", "L", "M", "N", "O",
       "P", "Q", "R", "S", "T", "U", "V", "W", "X", "Y", "Z", "[", "\\", "]", "^", "_",
       "<grave>", "a", "b", "c", "d", "e", "f", "g", "h", "i", "j", "k", "l", "m", "n", "o",
       "p", "q", "r", "s", "t", "u", "v", "w", "x", "y", "z", "{", "|", "}", "~"
    >>

AsciiChars == {Ascii[i] : i \in 1..Len(Ascii)}

CodePoint == [c \in AsciiChars |-> 31 + (CHOOSE i \in 1..Len(Ascii) : Ascii[i] = c)]

\* ord(c)
CharCode(c) == CodePoint[c]

LowerCase ==
    [c \in AsciiChars |->
        IF CodePoint[c] >= 65 /\ CodePoint[c] <= 90 THEN Ascii[CodePoint[c] + 32 - 31] ELSE c]

\* str.lower() of one character
Lower(c) == LowerCase[c]

UpperCase ==
    [c \in AsciiChars |->
        IF CodePoint[c] >= 97 /\ CodePoint[c] <= 122 THEN Ascii[CodePoint[c] - 32 - 31] ELSE c]

\* str.upper()
UpperStr(s) == [i \in 1..Len(s) |-> UpperCase[s[i]]]

LowerStr(s) == [i \in 1..Len(s) |-> Lower(s[i])]

IsSpace(c) == c = " "

\* \w of the re module: letters, digits, underscore
WordChars ==
    {c \in AsciiChars :
        LET n == CodePoint[c]
        IN  \/ n >= 48 /\ n <= 57
            \/ n >= 65 /\ n <= 90
            \/ n >= 97 /\ n <= 122
            \/ n = 95}

IsWordChar(c) == c \in WordChars

\* s < t for Python str: lexicographic by code point
RECURSIVE StrLess(_, _)
StrLess(s, t) ==
    IF t = <<>> THEN FALSE
    ELSE IF s = <<>> THEN TRUE
    ELSE IF Head(s) # Head(t) THEN CharCode(Head(s)) < CharCode(Head(t))
    ELSE StrLess(Tail(s), Tail(t))

RECURSIVE LStrip(_)
LStrip(s) == IF s # <<>> /\ IsSpace(Head(s)) THEN LStrip(Tail(s)) ELSE s

RECURSIVE RStrip(_)
RStrip(s) ==
    IF s # <<>> /\ IsSpace(s[Len(s)]) THEN RStrip(SubSeq(s, 1, Len(s) - 1)) ELSE s

\* str.strip()
Strip(s) == RStrip(LStrip(s))

\* re.sub(r"\s+", " ", s)
RECURSIVE CollapseWs(_)
CollapseWs(s) ==
    IF s = <<>> THEN <<>>
    ELSE IF IsSpace(Head(s))
         THEN <<" ">> \o CollapseWs(LStrip(s))
         ELSE <<Head(s)>> \o CollapseWs(Tail(s))

\* needle in hay
Contains(hay, needle) ==
    \E i \in 0..(Len(hay) - Len(needle)) : SubSeq(hay, i + 1, i + Len(needle)) = needle

\* hay.startswith(needle)
StartsWith(hay, needle) ==
    Len(needle) <= Len(hay) /\ SubSeq(hay, 1, Len(needle)) = needle

\* ------------------------------------------------------------------------
\* Regex safety and matching (models/category.py)
\* ------------------------------------------------------------------------
\* an absent Python str where the value is a character sequence
NoStr == <<"<None>">>
\* truthiness of str | None
Truthy(s) == s # NoStr /\ s # <<>>

MAX_PATTERN_LENGTH == 500

Quantifiers == {"+", "*", "?"}
BoundChars == {"0", "1", "2", "3", "4", "5", "6", "7", "8", "9", ","}

DANGEROUS_PATTERN_SIGNATURES ==
    { <<"(", "\\", "w", "+", ")", "+">>,
      <<"(", ".", "*", ")", "*">>,
      <<"(", ".", "+", ")", "+">>,
      <<"(", "[", "^", "\"", "]", "+", ")", "+">>,
      <<"(", "\\", "s", "+", ")", "+">> }

\* _NESTED_QUANTIFIER_PATTERN.search(p): "(" , no ")" up to the closing ")",
\* a quantifier inside, and after the ")" a quantifier or a {n,m} bound
NestedQuantifier(p) ==
    \E i \in 1..Len(p) : \E k \in (i + 1)..Len(p) :
        /\ p[i] = "("
        /\ p[k] = ")"
        /\ \A m \in (i + 1)..(k - 1) : p[m] # ")"
        /\ \E j \in (i + 1)..(k - 1) : p[j] \in Quantifiers
        /\ \/ k + 1 <= Len(p) /\ p[k + 1] \in Quantifiers
           \/ /\ k + 1 <= Len(p)
              /\ p[k + 1] = "{"
              /\ \E e \in (k + 3)..Len(p) :
                    /\ p[e] = "}"
                    /\ \A m \in (k + 2)..(e - 1) : p[m] \in BoundChars

IsSafePattern(p) ==
    IF Len(p) > MAX_PATTERN_LENGTH THEN FALSE
    ELSE IF NestedQuantifier(p) THEN FALSE
    ELSE IF \E d \in DANGEROUS_PATTERN_SIGNATURES : Contains(p, d) THEN FALSE
    ELSE TRUE

\* The patterns of the model are "^", "\b" and literal characters; every
\* other use of a regex metacharacter is a pattern re.compile refuses
\* ("(" unterminated, "*" with nothing to repeat).
RegexMeta == {"(", ")", "+", "*", "?", "{", "}", "[", "]", ".", "|", "$"}

RECURSIVE ParseRegex(_)
ParseRegex(p) ==
    IF p = <<>> THEN [ok |-> TRUE, toks |-> <<>>]
    ELSE IF Head(p) = "^"
         THEN LET r == ParseRegex(Tail(p))
              IN  [ok |-> r.ok, toks |-> <<[t |-> "bol", c |-> ""]>> \o r.toks]
    ELSE IF Head(p) = "\\"
         THEN IF Len(p) >= 2 /\ p[2] = "b"
              THEN LET r == ParseRegex(Tail(Tail(p)))
                   IN  [ok |-> r.ok, toks |-> <<[t |-> "wb", c |-> ""]>> \o r.toks]
              ELSE [ok |-> FALSE, toks |-> <<>>]
    ELSE IF Head(p) \in RegexMeta THEN [ok |-> FALSE, toks |-> <<>>]
    ELSE LET r == ParseRegex(Tail(p))
         IN  [ok |-> r.ok, toks |-> <<[t |-> "lit", c |-> Head(p)]>> \o r.toks]

\* re.compile(pattern, re.IGNORECASE) does not raise re.error
CompileOk(p) == ParseRegex(p).ok

\* \b at offset pos (between s[pos] and s[pos + 1])
AtWordBoundary(s, pos) ==
    LET before == pos >= 1 /\ IsWordChar(s[pos])
        after == pos + 1 <= Len(s) /\ IsWordChar(s[pos + 1])
    IN  before # after

RECURSIVE MatchFrom(_, _, _, _)
MatchFrom(toks, ti, s, pos) ==
    IF ti > Len(toks) THEN TRUE
    ELSE LET tok == toks[ti] IN
         CASE tok.t = "bol" -> pos = 0 /\ MatchFrom(toks, ti + 1, s, pos)
           [] tok.t = "wb" -> AtWordBoundary(s, pos) /\ MatchFrom(toks, ti + 1, s, pos)
           [] OTHER -> /\ pos < Len(s)
                       /\ Lower(s[pos + 1]) = Lower(tok.c)
                       /\ MatchFrom(toks, ti + 1, s, pos + 1)

\* compiled.search(s) with re.IGNORECASE
RegexSearch(p, s) ==
    LET toks == ParseRegex(p).toks
    IN  \E start \in 0..Len(s) : MatchFrom(toks, 1, s, start)

\* re.search(r'\b' + re.escape(kw_lower) + r'\b', description_lower)
WordBoundarySearch(kw_lower, description_lower) ==
    LET toks == <<[t |-> "wb", c |-> ""]>>
                \o [i \in 1..Len(kw_lower) |-> [t |-> "lit", c |-> kw_lower[i]]]
                \o <<[t |-> "wb", c |-> ""]>>
    IN  \E start \in 0..Len(description_lower) :
            MatchFrom(toks, 1, description_lower, start)

\* ------------------------------------------------------------------------
\* MatchResult, CategoryRule, ManualOverride (models/category.py)
\* ------------------------------------------------------------------------
\* smallest element of a non-empty set of integers, 0 for the empty set
MinOf(S) == IF S = {} THEN 0 ELSE CHOOSE i \in S : \A j \in S : i <= j

\* rule.matches returned None
NoMatch ==
    [matched |-> FALSE, raised |-> FALSE, confidence |-> 0, matched_by |-> None,
     matched_value |-> NoStr, factors |-> <<>>]

\* a MatchResult whose __post_init__ clamps the confidence into [0.0, 1.0]
MatchResultClamped(confidence, matched_by, matched_value, factors) ==
    [matched |-> TRUE, raised |-> FALSE, confidence |-> Max(0, Min(1000, confidence)),
     matched_by |-> matched_by, matched_value |-> matched_value, factors |-> factors]

\* MatchResult(...) with __post_init__: a confidence outside [0.0, 1.0]
\* raises ValueError, the value is never clamped
MatchResult(confidence, matched_by, matched_value, factors) ==
    IF ~(0 <= confidence /\ confidence <= 1000)
    THEN [matched |-> FALSE, raised |-> TRUE, confidence |-> confidence,
          matched_by |-> matched_by, matched_value |-> matched_value, factors |-> factors]
    ELSE [matched |-> TRUE, raised |-> FALSE, confidence |-> confidence,
          matched_by |-> matched_by, matched_value |-> matched_value, factors |-> factors]

\* an absent amount_min / amount_max
NoAmt == -1

\* CategoryRule.__post_init__: the patterns that pass _is_safe_pattern and
\* compile are kept, in order, in _compiled_patterns
CompiledPatterns(regex_patterns) ==
    SelectSeq(regex_patterns, LAMBDA pat : IsSafePattern(pat) /\ CompileOk(pat))

CategoryRule(id, category_id, keywords, regex_patterns, amount_min, amount_max, account_ids, priority, is_active, match_mode) ==
    [id |-> id, category_id |-> category_id, keywords |-> keywords,
     regex_patterns |-> regex_patterns, amount_min |-> amount_min,
     amount_max |-> amount_max, account_ids |-> account_ids, priority |-> priority,
     is_active |-> is_active, match_mode |-> match_mode,
     compiled_patterns |-> CompiledPatterns(regex_patterns)]

\* CategoryRule._calculate_confidence: the score in thousandths and the
\* factors appended, in order
CalculateConfidence(rule, matched_keyword, matched_pattern, match_mode_used, description) ==
    LET description_lower == LowerStr(description)
        kw_lower == LowerStr(matched_keyword)
        regexPart ==
            IF StartsWith(matched_pattern, <<"^">>)
            THEN LET pattern_len == Len(matched_pattern)
                     c1 == IF pattern_len > 10 THEN Min(1000, 920 + 40) ELSE 920
                     c2 == IF pattern_len > 20 THEN Min(1000, c1 + 40) ELSE c1
                 IN  [c |-> c2,
                      f |-> <<"Anchored regex match">>
                            \o (IF pattern_len > 10 THEN <<"Long pattern">> ELSE <<>>)]
            ELSE IF Contains(matched_pattern, <<"\\", "b">>)
                 THEN [c |-> Min(980, 850 + 50),
                       f |-> <<"Regex pattern match", "Word boundary in pattern">>]
                 ELSE [c |-> 850, f |-> <<"Regex pattern match">>]
        wordPart ==
            LET atStart == StartsWith(description_lower, kw_lower)
                long == Len(matched_keyword) > 8
                c1 == IF atStart THEN Min(950, 770 + 100) ELSE 770
                c2 == IF long THEN Min(950, c1 + 50) ELSE c1
            IN  [c |-> c2,
                 f |-> <<"Word boundary keyword">>
                       \o (IF atStart THEN <<"Keyword at description start">> ELSE <<>>)
                       \o (IF long THEN <<"Long keyword">> ELSE <<>>)]
        substringPart ==
            LET atStart == StartsWith(description_lower, kw_lower)
                long == Len(matched_keyword) > 10
                c1 == IF atStart THEN Min(880, 700 + 100) ELSE 700
                c2 == IF long THEN Min(880, c1 + 50) ELSE c1
            IN  [c |-> c2,
                 f |-> <<"Substring keyword">>
                       \o (IF atStart THEN <<"Keyword at description start">> ELSE <<>>)
                       \o (IF long THEN <<"Long keyword">> ELSE <<>>)]
        filterPart ==
            LET narrow == /\ rule.amount_min # NoAmt
                          /\ rule.amount_max # NoAmt
                          /\ 0 < rule.amount_max - rule.amount_min
                          /\ rule.amount_max - rule.amount_min < 100000
            IN  IF narrow
                THEN [c |-> Min(700, 500 + 150),
                      f |-> <<"Matched by amount/account filter only", "Narrow amount range">>]
                ELSE [c |-> 500, f |-> <<"Matched by amount/account filter only">>]
        base == IF Truthy(matched_pattern) THEN regexPart
                ELSE IF Truthy(matched_keyword)
                     THEN IF match_mode_used = "word_boundary" THEN wordPart
                          ELSE substringPart
                ELSE filterPart
    IN  IF rule.priority > 50
        THEN [c |-> Min(1000, base.c + Min(50, rule.priority - 50)),
              f |-> base.f \o <<"High priority rule">>]
        ELSE base

\* a rule left without compiled patterns treated as a rule without patterns
RegexCriterionLenient(rule, description) ==
    IF rule.compiled_patterns # <<>>
    THEN \E i \in 1..Len(rule.compiled_patterns) :
             RegexSearch(rule.compiled_patterns[i], description)
    ELSE TRUE

\* the regex criterion of matches: "no pattern specified" passes, "patterns
\* specified but all rejected" does not
RegexCriterion(rule, description) ==
    IF rule.compiled_patterns # <<>>
    THEN \E i \in 1..Len(rule.compiled_patterns) :
             RegexSearch(rule.compiled_patterns[i], description)
    ELSE rule.regex_patterns = <<>>

\* the keyword loop of matches: index of the first keyword found, 0 for none
FirstKeyword(rule, description) ==
    MinOf({i \in 1..Len(rule.keywords) :
              IF rule.match_mode = "word"
              THEN WordBoundarySearch(LowerStr(rule.keywords[i]), LowerStr(description))
              ELSE Contains(LowerStr(description), LowerStr(rule.keywords[i]))})

\* the pattern loop of matches: index in _compiled_patterns of the first
\* pattern found, 0 for none
FirstPattern(rule, description) ==
    MinOf({i \in 1..Len(rule.compiled_patterns) :
              RegexSearch(rule.compiled_patterns[i], description)})

\* matches from the two loops on: kwIdx and reIdx are their results
MatchOutcome(rule, description, amount, account_id, kwIdx, reIdx) ==
    LET abs_amount == Abs(amount)
        keyword_match == IF rule.keywords # <<>> THEN kwIdx # 0 ELSE TRUE
        matched_keyword == IF kwIdx # 0 THEN rule.keywords[kwIdx] ELSE NoStr
        match_mode_used ==
            IF kwIdx = 0 THEN None
            ELSE IF rule.match_mode = "word" THEN "word_boundary" ELSE "substring"
        regex_match == RegexCriterion(rule, description)
        \* the pattern reported is regex_patterns[i], i the index in _compiled_patterns
        matched_pattern == IF reIdx # 0 THEN rule.regex_patterns[reIdx] ELSE NoStr
        has_match ==
            IF rule.keywords # <<>> /\ rule.regex_patterns # <<>>
            THEN keyword_match \/ regex_match
            ELSE IF rule.keywords # <<>> THEN keyword_match
            ELSE IF rule.regex_patterns # <<>> THEN regex_match
            ELSE TRUE
        conf == CalculateConfidence(rule, matched_keyword, matched_pattern,
                                    match_mode_used, description)
    IN  IF ~rule.is_active THEN NoMatch
        ELSE IF rule.account_ids # {} /\ account_id \notin rule.account_ids THEN NoMatch
        ELSE IF rule.amount_min # NoAmt /\ abs_amount < rule.amount_min THEN NoMatch
        ELSE IF rule.amount_max # NoAmt /\ abs_amount > rule.amount_max THEN NoMatch
        ELSE IF ~has_match THEN NoMatch
        ELSE IF Truthy(matched_pattern)
             THEN MatchResult(conf.c, "regex", matched_pattern, conf.f)
        ELSE IF Truthy(matched_keyword)
             THEN MatchResult(conf.c, "keyword", matched_keyword, conf.f)
        ELSE MatchResult(conf.c, "filter", <<"amount/account filter">>, conf.f)

\* CategoryRule.matches(description, amount, account_id)
RuleMatches(rule, description, amount, account_id) ==
    MatchOutcome(rule, description, amount, account_id,
                 FirstKeyword(rule, description), FirstPattern(rule, description))

\* ManualOverride.matches(transaction_date, transaction_amount, description)
OverrideMatches(override, transaction_date, transaction_amount, description) ==
    IF transaction_date # override.date_str THEN FALSE
    ELSE IF transaction_amount # override.amount THEN FALSE
    ELSE IF override.keywords # <<>>
         THEN \E i \in 1..Len(override.keywords) :
                  Contains(LowerStr(description), LowerStr(override.keywords[i]))
         ELSE TRUE

\* ------------------------------------------------------------------------
\* Transaction (models/transaction.py)
\* ------------------------------------------------------------------------
NoId == 0

Digit(n) == <<"0", "1", "2", "3", "4", "5", "6", "7", "8", "9">>[n + 1]

\* A date is the number of its day counted from 2024-01-01 (day 1), through
\* 2024 and 2025; the difference of two dates is their number of days apart.
\* date.year
YearOf(d) == IF d <= 366 THEN 2024 ELSE 2025

DaysInMonth(year) ==
    <<31, IF year = 2024 THEN 29 ELSE 28, 31, 30, 31, 30, 31, 31, 30, 31, 30, 31>>

\* <<date.month, date.day>> of the day doy of a year with these month lengths
RECURSIVE MonthAndDay(_, _, _)
MonthAndDay(doy, month, lengths) ==
    IF doy <= lengths[month] THEN <<month, doy>>
    ELSE MonthAndDay(doy - lengths[month], month + 1, lengths)

\* date.isoformat()
IsoFormat(d) ==
    LET year == YearOf(d)
        md == MonthAndDay(IF year = 2024 THEN d ELSE d - 366, 1, DaysInMonth(year))
    IN  <<"2", "0", "2", Digit(year % 10), "-",
          Digit(md[1] \div 10), Digit(md[1] % 10), "-",
          Digit(md[2] \div 10), Digit(md[2] % 10)>>

\* date_to_iso(d)
date_to_iso(d) == IsoFormat(d)

\* Decimal.quantize(Decimal("0.01")): mills to cents, ROUND_HALF_EVEN,
\* and -0 normalised to 0
QuantizeCents(amount) ==
    LET m == Abs(amount)
        q == m \div 10
        r == m % 10
        up == r > 5 \/ (r = 5 /\ q % 2 = 1)
        cents == IF up THEN q + 1 ELSE q
    IN  IF amount < 0 THEN -cents ELSE cents

\* Transaction.fingerprint: the string that is hashed; the SHA-256 prefix is
\* taken to be collision free
Fingerprint(txn) ==
    <<IsoFormat(txn.date), CollapseWs(Strip(LowerStr(txn.description))),
      QuantizeCents(txn.amount), txn.account_id>>

\* Transaction.assign_category
AssignCategory(txn, category_id, source, subcategory_id, rule_id, confidence, confidence_factors, matched_pattern) ==
    [txn EXCEPT !.category = category_id,
                !.subcategory = subcategory_id,
                !.category_source = source,
                !.category_rule_id = rule_id,
                !.is_uncategorized = FALSE,
                !.confidence_score = confidence,
                !.confidence_factors = confidence_factors,
                !.matched_pattern = matched_pattern]

\* Transaction.flag_as_duplicate
FlagAsDuplicate(txn, original_id) ==
    [txn EXCEPT !.is_duplicate = TRUE, !.duplicate_of = original_id]

\* Normalizer._normalize_transaction: the Transaction built from a raw record
NormalizeTransaction(raw, id) ==
    [id |-> id, date |-> raw.date, description |-> raw.description,
     amount |-> raw.amount, account_id |-> raw.account_id,
     source_file |-> raw.source_file, source_line |-> NoLine,
     check_number |-> raw.check_number,
     running_balance |-> raw.balance, is_anomaly |-> FALSE, anomaly_reasons |-> <<>>,
     category |-> None, subcategory |-> None, is_uncategorized |-> TRUE,
     category_source |-> "default", category_rule_id |-> None,
     confidence_score |-> 0, confidence_factors |-> <<>>, matched_pattern |-> NoStr,
     is_duplicate |-> FALSE, duplicate_of |-> NoId]

\* ------------------------------------------------------------------------
\* Config (config.py)
\* ------------------------------------------------------------------------
\* list.sort(key=priority, reverse=True): stable, descending
\* a sort that is not stable: among equal priorities the later entry first
RECURSIVE InsertByPriorityUnstable(_, _)
InsertByPriorityUnstable(sorted, r) ==
    IF sorted = <<>> THEN <<r>>
    ELSE IF Head(sorted).priority > r.priority
         THEN <<Head(sorted)>> \o InsertByPriorityUnstable(Tail(sorted), r)
         ELSE <<r>> \o sorted

RECURSIVE InsertByPriority(_, _)
InsertByPriority(sorted, r) ==
    IF sorted = <<>> THEN <<r>>
    ELSE IF Head(sorted).priority >= r.priority
         THEN <<Head(sorted)>> \o InsertByPriority(Tail(sorted), r)
         ELSE <<r>> \o sorted

RECURSIVE SortRec(_, _)
SortRec(done, todo) ==
    IF todo = <<>> THEN done
    ELSE SortRec(InsertByPriority(done, Head(todo)), Tail(todo))

SortByPriorityDesc(items) == SortRec(<<>>, items)

\* load_corrections: corrections[correction.fingerprint] = correction, a later
\* entry of the file replaces an earlier one with the same fingerprint
RECURSIVE CorrectionsDict(_)
CorrectionsDict(correction_list) ==
    IF correction_list = <<>> THEN <<>>
    ELSE LET last == correction_list[Len(correction_list)]
             rest == CorrectionsDict(SubSeq(correction_list, 1, Len(correction_list) - 1))
         IN  SelectSeq(rest, LAMBDA c : c.fingerprint # last.fingerprint) \o <<last>>

\* Config.get_matching_correction(fingerprint): the correction or NoCorrection
NoCorrection == [fingerprint |-> <<>>, category_id |-> None, subcategory_id |-> None]

GetMatchingCorrection(cfg, fingerprint) ==
    LET idx == MinOf({i \in 1..Len(cfg.corrections) :
                          cfg.corrections[i].fingerprint = fingerprint})
    IN  IF idx = 0 THEN NoCorrection ELSE cfg.corrections[idx]

\* Config(): what load_config assembles
DEFAULT_CASH_ADVANCE_KEYWORDS ==
    << <<"C", "A", "S", "H", " ", "A", "D", "V", "A", "N", "C", "E">>,
       <<"C", "A", "S", "H", " ", "W", "I", "T", "H", "D", "R", "A", "W", "A", "L">>,
       <<"A", "T", "M", " ", "W", "I", "T", "H", "D", "R", "A", "W", "A", "L">>,
       <<"C", "A", "S", "I", "N", "O">> >>

\* AnomalyConfig(): amounts in thousandths of a dollar
DefaultAnomalyConfig ==
    [large_transaction_threshold |-> 5000000,
     date_gap_warning_days |-> 7,
     date_gap_alert_days |-> 30,
     cash_advance_keywords |-> DEFAULT_CASH_ADVANCE_KEYWORDS,
     custom_patterns |-> <<>>]

\* the defaults of validation_threshold and correction_threshold, in thousandths
validation_threshold == 700
correction_threshold == 900

EmptyConfig ==
    [categories |-> <<>>, rules_declared |-> <<>>, category_rules |-> <<>>,
     manual_overrides |-> <<>>, corrections |-> <<>>, accounts |-> <<>>,
     anomaly |-> DefaultAnomalyConfig, validation_threshold |-> validation_threshold]

\* load_categories, load_manual_overrides, load_corrections
LoadedConfig(categories, rule_list, override_list, correction_list) ==
    [categories |-> categories,
     rules_declared |-> rule_list,
     category_rules |-> SortByPriorityDesc(rule_list),
     manual_overrides |-> SortByPriorityDesc(override_list),
     corrections |-> CorrectionsDict(correction_list),
     accounts |-> <<>>,
     anomaly |-> DefaultAnomalyConfig,
     validation_threshold |-> validation_threshold]

\* ------------------------------------------------------------------------
\* Categorizer (processing/categorizer.py)
\* ------------------------------------------------------------------------
CategoryKnown(cfg, id) == id \in DOMAIN cfg.categories

\* category.parent_id, truthy
HasParent(cfg, id) == CategoryKnown(cfg, id) /\ cfg.categories[id].parent_id # None

\* Categorizer._find_matching_override: index of the first match, 0 for None
FindMatchingOverride(cfg, txn) ==
    MinOf({i \in 1..Len(cfg.manual_overrides) :
              OverrideMatches(cfg.manual_overrides[i], date_to_iso(txn.date),
                              txn.amount, txn.description)})

\* Categorizer._find_matching_rule: index of the first match, 0 for (None, None)
FindMatchingRule(cfg, txn) ==
    MinOf({i \in 1..Len(cfg.category_rules) :
              RuleMatches(cfg.category_rules[i], txn.description, txn.amount,
                          txn.account_id).matched})

\* the assignment of the rule branch of _categorize_transaction
AssignFromRule(cfg, txn, rule, match_result) ==
    IF /\ HasParent(cfg, rule.category_id)
       /\ CategoryKnown(cfg, cfg.categories[rule.category_id].parent_id)
    THEN AssignCategory(txn, cfg.categories[rule.category_id].parent_id, "rule",
                        rule.category_id, rule.id, match_result.confidence,
                        match_result.factors, match_result.matched_value)
    ELSE AssignCategory(txn, rule.category_id, "rule", None, rule.id,
                        match_result.confidence, match_result.factors,
                        match_result.matched_value)

\* the rule branch with idx the result of _find_matching_rule
ApplyMatchedRule(cfg, txn, idx) ==
    IF idx = 0 THEN txn
    ELSE AssignFromRule(cfg, txn, cfg.category_rules[idx],
                        RuleMatches(cfg.category_rules[idx], txn.description,
                                    txn.amount, txn.account_id))

\* the rule branch of _categorize_transaction
ApplyRule(cfg, txn) == ApplyMatchedRule(cfg, txn, FindMatchingRule(cfg, txn))

\* the manual-override branch with idx the result of _find_matching_override
ApplyMatchedOverride(cfg, txn, idx) ==
    LET override == cfg.manual_overrides[idx]
        subcategory_id ==
            IF override.subcategory_id # None /\ ~CategoryKnown(cfg, override.subcategory_id)
            THEN None ELSE override.subcategory_id
    IN  IF idx # 0 /\ CategoryKnown(cfg, override.category_id)
        THEN AssignCategory(txn, override.category_id, "manual", subcategory_id, None,
                            1000, <<"Manual override">>, NoStr)
        ELSE ApplyRule(cfg, txn)

\* the rules consulted before the manual overrides
ApplyOverrideRulesFirst(cfg, txn) ==
    IF FindMatchingRule(cfg, txn) # 0 THEN ApplyRule(cfg, txn)
    ELSE ApplyMatchedOverride(cfg, txn, FindMatchingOverride(cfg, txn))

\* the manual-override branch, falling through to the rules
ApplyOverride(cfg, txn) == ApplyMatchedOverride(cfg, txn, FindMatchingOverride(cfg, txn))

\* corrections looked up only for transactions not categorized yet
FindMatchingCorrectionOnce(cfg, txn) ==
    IF txn.is_uncategorized THEN GetMatchingCorrection(cfg, Fingerprint(txn))
    ELSE NoCorrection

\* Categorizer._find_matching_correction
FindMatchingCorrection(cfg, txn) == GetMatchingCorrection(cfg, Fingerprint(txn))

\* a correction applied without looking its category up
CorrectionUsableUnchecked(cfg, correction) == correction # NoCorrection

\* the check "correction.category_id not in self.config.categories"
CorrectionUsable(cfg, correction) ==
    correction # NoCorrection /\ CategoryKnown(cfg, correction.category_id)

\* the subcategory of a correction taken as it is written
CorrectionSubcategoryUnchecked(cfg, sub0, category_id) == sub0

\* validation of the subcategory of a correction against its parent category
CorrectionSubcategory(cfg, sub0, category_id) ==
    IF sub0 = None THEN None
    ELSE IF ~CategoryKnown(cfg, sub0) THEN None
    ELSE IF cfg.categories[sub0].parent_id = None THEN None
    ELSE IF cfg.categories[sub0].parent_id # category_id THEN None
    ELSE sub0

\* the correction branch with correction the result of
\* _find_matching_correction, falling through to the overrides
ApplyCorrection(cfg, txn, correction) ==
    LET is_sub == HasParent(cfg, correction.category_id)
        category_id ==
            IF is_sub THEN cfg.categories[correction.category_id].parent_id
            ELSE correction.category_id
        sub0 == IF is_sub THEN correction.category_id ELSE correction.subcategory_id
    IN  IF CorrectionUsable(cfg, correction)
        THEN IF is_sub /\ ~CategoryKnown(cfg, category_id)
             THEN txn
             ELSE AssignCategory(txn, category_id, "correction",
                                 CorrectionSubcategory(cfg, sub0, category_id), None,
                                 1000, <<"Imported from reviewed output">>, NoStr)
        ELSE ApplyOverride(cfg, txn)

\* Categorizer._categorize_transaction
CategorizeTransaction(cfg, txn) ==
    ApplyCorrection(cfg, txn, FindMatchingCorrection(cfg, txn))

\* Categorizer.categorize
CategorizeAll(cfg, transactions) ==
    [i \in 1..Len(transactions) |-> CategorizeTransaction(cfg, transactions[i])]

\* ------------------------------------------------------------------------
\* AICategorizer (processing/ai/categorizer.py)
\* ------------------------------------------------------------------------
\* the confidence of the answer assigned as it comes
ClampConfidenceUnclamped(raw) ==
    IF raw.kind = "nan" THEN 1000 ELSE raw.v

\* A confidence in an AI answer is a JSON number (kind "num", thousandths in
\* v), the JSON literal NaN (kind "nan"), or text float() refuses (kind "bad").
\* max(0.0, min(1.0, raw_confidence)): min(1.0, nan) is 1.0
ClampConfidence(raw) ==
    IF raw.kind = "nan" THEN 1000 ELSE Max(0, Min(1000, raw.v))

\* the loop of categorize_batch over the items of one batch answer; sel lists
\* the positions of the batch in the collection, k the next item, processed
\* the indices seen.  An item whose confidence float() refuses raises, which
\* ends the batch with the earlier items applied.
RECURSIVE ApplyBatchItems(_, _, _, _, _)
ApplyBatchItems(txns, sel, items, k, processed) ==
    IF k > Len(items) THEN txns
    ELSE LET item == items[k]
             local_idx == item.index - 1
         IN  IF local_idx < 0 \/ local_idx >= Len(sel)
             THEN ApplyBatchItems(txns, sel, items, k + 1, processed)
             ELSE IF local_idx \in processed
             THEN ApplyBatchItems(txns, sel, items, k + 1, processed)
             ELSE IF item.confidence.kind = "bad" THEN txns
             ELSE LET conf == ClampConfidence(item.confidence)
                      pos == sel[local_idx + 1]
                      applied ==
                          IF item.category_id # "uncategorized"
                          THEN [txns EXCEPT ![pos] =
                                   AssignCategory(txns[pos], item.category_id, "ai", None,
                                                  None, conf, <<"AI">>, NoStr)]
                          ELSE txns
                  IN  ApplyBatchItems(applied, sel, items, k + 1,
                                      processed \cup {local_idx})

\* AICategorizer.categorize_batch(transactions[sel]) with apply_results, the
\* batch fitting in one request; response.kind is "raise" (send_message or
\* parse_json_response raised), "dict" (the answer is not a list) or "list"
CategorizeBatch(txns, sel, response) ==
    IF response.kind = "list"
    THEN ApplyBatchItems(txns, sel, response.items, 1, {})
    ELSE txns

\* the counting of the loop of categorize_batch over the items of one batch
\* answer: res is the BatchResult so far, n the length of the batch.  An item
\* whose confidence float() refuses raises into the except branch, which adds
\* len(batch) to failed.
RECURSIVE CountBatchItems(_, _, _, _, _)
CountBatchItems(res, n, items, k, processed) ==
    IF k > Len(items) THEN res
    ELSE LET item == items[k]
             local_idx == item.index - 1
         IN  IF local_idx < 0 \/ local_idx >= n
             THEN CountBatchItems([res EXCEPT !.failed = @ + 1], n, items, k + 1, processed)
             ELSE IF local_idx \in processed
             THEN CountBatchItems(res, n, items, k + 1, processed)
             ELSE IF item.confidence.kind = "bad" THEN [res EXCEPT !.failed = @ + n]
             ELSE LET cat_result == [category_id |-> item.category_id,
                                     confidence |-> ClampConfidence(item.confidence)]
                      counted ==
                          IF item.category_id # "uncategorized"
                          THEN [res EXCEPT !.results[local_idx + 1] = cat_result,
                                           !.succeeded = @ + 1]
                          ELSE [res EXCEPT !.results[local_idx + 1] = cat_result,
                                           !.failed = @ + 1]
                  IN  CountBatchItems(counted, n, items, k + 1, processed \cup {local_idx})

\* the BatchResult returned by categorize_batch on n transactions that fit in
\* one request: the counts of the request, then none_count added to failed; a
\* None entry of results is an entry whose category_id is None
BatchResult(n, response) ==
    LET allocated == [results |-> [i \in 1..n |-> [category_id |-> None, confidence |-> 0]],
                      succeeded |-> 0, failed |-> 0]
        counted == IF response.kind = "list"
                   THEN CountBatchItems(allocated, n, response.items, 1, {})
                   ELSE [allocated EXCEPT !.failed = @ + n]
        none_count == Cardinality({i \in 1..n : counted.results[i].category_id = None})
    IN  [counted EXCEPT !.failed = @ + none_count]

IsUncategorized(txn) == txn.is_uncategorized

\* [t for t in transactions if t.is_uncategorized], as positions in list order
RECURSIVE UncategorizedPositions(_, _)
UncategorizedPositions(txns, from) ==
    IF from > Len(txns) THEN <<>>
    ELSE (IF IsUncategorized(txns[from]) THEN <<from>> ELSE <<>>)
         \o UncategorizedPositions(txns, from + 1)

\* AICategorizationConfig.from_dict: max(0.0, min(1.0, float(raw_val_thresh)))
ValidationThresholdFromDict(raw_val_thresh) == Max(0, Min(1000, raw_val_thresh))

\* a filter that validates a score equal to the threshold as well
NeedsValidationInclusive(cfg, txn) ==
    /\ txn.category # None
    /\ ~txn.is_uncategorized
    /\ txn.confidence_score <= cfg.validation_threshold

\* the filter of validate_low_confidence
NeedsValidation(cfg, txn) ==
    /\ txn.category # None
    /\ ~txn.is_uncategorized
    /\ txn.confidence_score < cfg.validation_threshold

\* the list to_validate of validate_low_confidence, as positions in list order
RECURSIVE LowConfidencePositions(_, _, _)
LowConfidencePositions(cfg, txns, from) ==
    IF from > Len(txns) THEN <<>>
    ELSE (IF NeedsValidation(cfg, txns[from]) THEN <<from>> ELSE <<>>)
         \o LowConfidencePositions(cfg, txns, from + 1)

\* AICategorizer.categorize_transaction followed by the assignment of
\* categorize_uncategorized in single mode; answer.kind is "raise", "parse_error"
\* or "dict"
CategorizeSingle(txn, answer) ==
    IF answer.kind # "dict" \/ answer.confidence.kind = "bad" THEN txn
    ELSE IF answer.category_id = "uncategorized" THEN txn
    ELSE AssignCategory(txn, answer.category_id, "ai", None, None,
                        ClampConfidence(answer.confidence), <<"AI">>, NoStr)

\* AICategorizer.validate_categorization: the status of the AIValidationResult
ValidationStatus(answer) ==
    IF answer.kind # "dict" \/ answer.confidence.kind = "bad" THEN "uncertain"
    ELSE IF answer.validated THEN "validated"
    ELSE IF ClampConfidence(answer.confidence) >= correction_threshold THEN "corrected"
    ELSE "uncertain"

\* the loop of validate_low_confidence over to_validate; an answer of kind
\* "raise" is send_message raising, which ends the call with the earlier
\* corrections applied
RECURSIVE ValidateLoop(_, _, _, _)
ValidateLoop(txns, to_validate, answers, k) ==
    IF k > Len(to_validate) THEN txns
    ELSE LET pos == to_validate[k]
             txn == txns[pos]
             answer == answers[k]
         IN  IF answer.kind = "raise" THEN txns
             ELSE IF /\ ValidationStatus(answer) = "corrected"
                     /\ answer.suggested_category_id # txn.category
                  THEN ValidateLoop(
                          [txns EXCEPT ![pos] =
                              AssignCategory(txn, answer.suggested_category_id,
                                             "ai_correction", None, None,
                                             ClampConfidence(answer.confidence),
                                             <<"AI correction">>, NoStr)],
                          to_validate, answers, k + 1)
                  ELSE ValidateLoop(txns, to_validate, answers, k + 1)

\* ------------------------------------------------------------------------
\* AIClient and CostEstimator (processing/ai/client.py, cost_estimator.py)
\* ------------------------------------------------------------------------
\* Costs are in millionths of a dollar, so that a token priced per million
\* tokens costs a whole number.
\* CostEstimator.estimate_cost with the pricing of the default model: 3.00
\* per million input tokens, 15.00 per million output tokens
EstimateCost(input_tokens, output_tokens) == input_tokens * 3 + output_tokens * 15

\* CostEstimator.check_budget: is_within_budget
CheckBudget(cost_estimator, estimated_cost) ==
    IF cost_estimator.budget_limit = NoAmt THEN TRUE
    ELSE ~(estimated_cost > cost_estimator.budget_limit - cost_estimator.current_spend)

\* ------------------------------------------------------------------------
\* Deduplicator (processing/deduplicator.py)
\* ------------------------------------------------------------------------
\* thresholds in thousandths, like the confidences
\* the records the deduplicator is exercised on: one account, the same
\* description up to case and blanks, with and without check numbers
CafeLatte == <<"C", "A", "F", "E", " ", "L", "A", "T", "T", "E">>

DupPlain ==
    [date |-> 1, description |-> CafeLatte, amount |-> -42000, account_id |-> "chk",
     source_file |-> <<"a">>, check_number |-> None, balance |-> <<>>]

DupCheck101 == [DupPlain EXCEPT !.check_number = "101"]

DupCheck102 == [DupPlain EXCEPT !.check_number = "102"]

\* the next day, from another file, in lower case with a trailing blank
DupNextDay ==
    [DupPlain EXCEPT !.date = 2,
                     !.description = LowerStr(CafeLatte) \o <<" ">>,
                     !.source_file = <<"b">>]

\* the next day, one character of ten differs: similarity 18/20
DupFuzzy ==
    [DupPlain EXCEPT !.date = 2,
                     !.description = <<"C", "A", "F", "E", " ", "L", "A", "T", "T", "A">>]

\* two days after DupPlain, one day after DupNextDay
DupThirdDay == [DupPlain EXCEPT !.date = 3]

\* another amount: a group of its own
DupOtherAmount == [DupPlain EXCEPT !.amount = -43000]

\* another amount, twenty characters of which the last differs: similarity
\* 38/40
DupLongA ==
    [DupPlain EXCEPT !.amount = -43000,
                     !.description = CafeLatte \o <<" ", "D", "O", "W", "N", "T", "O", "W", "N", "A">>]

DupLongB ==
    [DupPlain EXCEPT !.amount = -43000,
                     !.description = CafeLatte \o <<" ", "D", "O", "W", "N", "T", "O", "W", "N", "B">>]

DedupRawPool ==
    {DupPlain, DupCheck101, DupCheck102, DupNextDay, DupFuzzy, DupThirdDay,
     DupOtherAmount, DupLongA, DupLongB}

\* the descriptions that occur in the records
DedupDescriptions == {raw.description : raw \in DedupRawPool}

similarity_threshold == 900
date_tolerance_days == 1
same_day_threshold == 950

MaxOf(S) == CHOOSE x \in S : \A y \in S : y <= x

\* length of the common run of a from i and b from j
RECURSIVE CommonLen(_, _, _, _)
CommonLen(a, b, i, j) ==
    IF i <= Len(a) /\ j <= Len(b) /\ a[i] = b[j]
    THEN 1 + CommonLen(a, b, i + 1, j + 1)
    ELSE 0

\* SequenceMatcher.find_longest_match: the longest block, of those the one
\* that starts earliest in a, of those the one that starts earliest in b
FindLongestMatch(a, b) ==
    LET run == [i \in 1..Len(a), j \in 1..Len(b) |-> CommonLen(a, b, i, j)]
        k == MaxOf({run[x] : x \in DOMAIN run} \cup {0})
        i0 == MinOf({i \in 1..Len(a) : \E j \in 1..Len(b) : run[i, j] = k})
        j0 == MinOf({j \in 1..Len(b) : run[i0, j] = k})
    IN  IF Len(a) = 0 \/ Len(b) = 0 \/ k = 0
        THEN [i |-> 1, j |-> 1, size |-> 0]
        ELSE [i |-> i0, j |-> j0, size |-> k]

\* SequenceMatcher.get_matching_blocks: the number of matched characters
RECURSIVE MatchCount(_, _)
MatchCount(a, b) ==
    LET m == FindLongestMatch(a, b)
    IN  IF m.size = 0 THEN 0
        ELSE m.size
             + MatchCount(SubSeq(a, 1, m.i - 1), SubSeq(b, 1, m.j - 1))
             + MatchCount(SubSeq(a, m.i + m.size, Len(a)),
                          SubSeq(b, m.j + m.size, Len(b)))

\* the body of Deduplicator._description_similarity, as the fraction num / den
SimilarityRatio(desc1, desc2) ==
    LET d1 == Strip(LowerStr(desc1))
        d2 == Strip(LowerStr(desc2))
    IN  IF d1 = d2 THEN [num |-> 1, den |-> 1]
        ELSE [num |-> 2 * MatchCount(d1, d2), den |-> Len(d1) + Len(d2)]

\* SimilarityRatio of every pair of descriptions of the records, computed once
SimilarityOfRecords ==
    {<<d1, d2, SimilarityRatio(d1, d2)>> :
        d1 \in DedupDescriptions, d2 \in DedupDescriptions}

\* Deduplicator._description_similarity
DescriptionSimilarity(desc1, desc2) ==
    IF \E known \in SimilarityOfRecords : known[1] = desc1 /\ known[2] = desc2
    THEN (CHOOSE known \in SimilarityOfRecords :
              known[1] = desc1 /\ known[2] = desc2)[3]
    ELSE SimilarityRatio(desc1, desc2)

\* similarity < threshold
SimilarityBelow(similarity, threshold) ==
    similarity.num * 1000 < threshold * similarity.den

\* truthiness of the check number of the raw record
HasCheck(check) == check # None /\ check # ""

\* one threshold for every pair, whatever the dates
AreDuplicatesOneThreshold(txn1, txn2) ==
    IF txn1.account_id # txn2.account_id THEN FALSE
    ELSE IF /\ HasCheck(txn1.check_number)
            /\ HasCheck(txn2.check_number)
            /\ txn1.check_number # txn2.check_number THEN FALSE
    ELSE IF txn1.amount # txn2.amount THEN FALSE
    ELSE IF Abs(txn1.date - txn2.date) > date_tolerance_days THEN FALSE
    ELSE ~SimilarityBelow(DescriptionSimilarity(txn1.description, txn2.description),
                          similarity_threshold)

\* Deduplicator._are_duplicates
AreDuplicates(txn1, txn2) ==
    IF txn1.account_id # txn2.account_id THEN FALSE
    ELSE IF /\ HasCheck(txn1.check_number)
            /\ HasCheck(txn2.check_number)
            /\ txn1.check_number # txn2.check_number THEN FALSE
    ELSE IF txn1.amount # txn2.amount THEN FALSE
    ELSE IF Abs(txn1.date - txn2.date) > date_tolerance_days THEN FALSE
    ELSE LET similarity == DescriptionSimilarity(txn1.description, txn2.description)
         IN  IF txn1.date = txn2.date
             THEN ~SimilarityBelow(similarity, same_day_threshold)
             ELSE ~SimilarityBelow(similarity, similarity_threshold)

\* source_line or 0
LineOrZero(line) == IF line = NoLine THEN 0 ELSE line

\* the sort key of find_duplicates compared as Python compares tuples:
\* (date, description, amount, source_file, source_line or 0)
SortKeyLess(t1, t2) ==
    IF t1.date # t2.date THEN t1.date < t2.date
    ELSE IF t1.description # t2.description
         THEN StrLess(t1.description, t2.description)
    ELSE IF t1.amount # t2.amount THEN t1.amount < t2.amount
    ELSE IF t1.source_file # t2.source_file
         THEN StrLess(t1.source_file, t2.source_file)
    ELSE LineOrZero(t1.source_line) < LineOrZero(t2.source_line)

\* sorted() is stable: x goes before the first element that is greater
RECURSIVE InsertByKey(_, _, _)
InsertByKey(txns, sorted, x) ==
    IF sorted = <<>> THEN <<x>>
    ELSE IF SortKeyLess(txns[x], txns[Head(sorted)]) THEN <<x>> \o sorted
    ELSE <<Head(sorted)>> \o InsertByKey(txns, Tail(sorted), x)

\* sorted(group, key=...) over the positions of a group
RECURSIVE SortedGroup(_, _, _)
SortedGroup(txns, group, done) ==
    IF group = <<>> THEN done
    ELSE SortedGroup(txns, Tail(group), InsertByKey(txns, done, Head(group)))

\* the key of by_key
GroupKey(txn) == <<txn.account_id, txn.amount>>

\* the keys of by_key in insertion order
RECURSIVE GroupKeys(_, _, _)
GroupKeys(txns, i, keys) ==
    IF i > Len(txns) THEN keys
    ELSE IF \E k \in 1..Len(keys) : keys[k] = GroupKey(txns[i])
         THEN GroupKeys(txns, i + 1, keys)
    ELSE GroupKeys(txns, i + 1, Append(keys, GroupKey(txns[i])))

\* by_key[key]: the positions of the transactions of one key, in list order
RECURSIVE GroupOf(_, _, _)
GroupOf(txns, key, i) ==
    IF i > Len(txns) THEN <<>>
    ELSE IF GroupKey(txns[i]) = key THEN <<i>> \o GroupOf(txns, key, i + 1)
    ELSE GroupOf(txns, key, i + 1)

\* an inner loop that flags an unflagged txn2 and clears the flag of a flagged one
RECURSIVE CompareLaterToggling(_, _, _, _)
CompareLaterToggling(txns, sorted_group, i, j) ==
    IF j > Len(sorted_group) THEN txns
    ELSE LET txn1 == txns[sorted_group[i]]
             txn2 == txns[sorted_group[j]]
         IN  IF AreDuplicates(txn1, txn2)
             THEN CompareLaterToggling(
                      [txns EXCEPT ![sorted_group[j]] =
                          IF txn2.is_duplicate
                          THEN [txn2 EXCEPT !.is_duplicate = FALSE, !.duplicate_of = NoId]
                          ELSE FlagAsDuplicate(txn2, txn1.id)],
                      sorted_group, i, j + 1)
             ELSE CompareLaterToggling(txns, sorted_group, i, j + 1)

\* the inner loop of find_duplicates: txn1 against every later txn2
RECURSIVE CompareLater(_, _, _, _)
CompareLater(txns, sorted_group, i, j) ==
    IF j > Len(sorted_group) THEN txns
    ELSE LET txn1 == txns[sorted_group[i]]
             txn2 == txns[sorted_group[j]]
         IN  IF AreDuplicates(txn1, txn2) /\ ~txn2.is_duplicate
             THEN CompareLater([txns EXCEPT ![sorted_group[j]] =
                                    FlagAsDuplicate(txn2, txn1.id)],
                               sorted_group, i, j + 1)
             ELSE CompareLater(txns, sorted_group, i, j + 1)

\* an outer loop that compares a flagged txn1 as well
RECURSIVE ComparePairsFlaggedToo(_, _, _)
ComparePairsFlaggedToo(txns, sorted_group, i) ==
    IF i > Len(sorted_group) THEN txns
    ELSE ComparePairsFlaggedToo(CompareLater(txns, sorted_group, i, i + 1),
                                sorted_group, i + 1)

\* the outer loop of find_duplicates over one sorted group
RECURSIVE ComparePairs(_, _, _)
ComparePairs(txns, sorted_group, i) ==
    IF i > Len(sorted_group) THEN txns
    ELSE IF txns[sorted_group[i]].is_duplicate
         THEN ComparePairs(txns, sorted_group, i + 1)
    ELSE ComparePairs(CompareLater(txns, sorted_group, i, i + 1), sorted_group, i + 1)

\* the loop of find_duplicates over the groups
RECURSIVE CheckGroups(_, _, _)
CheckGroups(txns, keys, g) ==
    IF g > Len(keys) THEN txns
    ELSE LET group == GroupOf(txns, keys[g], 1)
         IN  IF Len(group) < 2 THEN CheckGroups(txns, keys, g + 1)
             ELSE CheckGroups(ComparePairs(txns, SortedGroup(txns, group, <<>>), 1),
                              keys, g + 1)

\* Deduplicator.find_duplicates
find_duplicates(txns) ==
    IF txns = <<>> THEN txns
    ELSE CheckGroups(txns, GroupKeys(txns, 1, <<>>), 1)

\* duplicate_ids with the first transaction of every pair only
DuplicateIdsFirstOnly(txns, group) ==
    {txns[group[i]].id : i \in {k \in 1..Len(group) :
        \E j \in (k + 1)..Len(group) : AreDuplicates(txns[group[k]], txns[group[j]])}}

\* duplicate_ids of get_duplicate_groups: the ids of txn1 and txn2 of every
\* pair of the group, txn1 before txn2 in list order, that _are_duplicates
DuplicateIds(txns, group) ==
    {txns[group[i]].id : i \in {k \in 1..Len(group) :
        \/ \E j \in (k + 1)..Len(group) : AreDuplicates(txns[group[k]], txns[group[j]])
        \/ \E j \in 1..(k - 1) : AreDuplicates(txns[group[j]], txns[group[k]])}}

\* the loop of get_duplicate_groups over by_key: groups is keyed by
\* "dup_<account_id>_<amount>", one entry per key here; a group is the list
\* of the positions of its transactions
RECURSIVE DuplicateGroups(_, _, _)
DuplicateGroups(txns, keys, g) ==
    IF g > Len(keys) THEN <<>>
    ELSE LET group == GroupOf(txns, keys[g], 1)
             duplicate_ids == IF Len(group) < 2 THEN {} ELSE DuplicateIds(txns, group)
         IN  (IF duplicate_ids # {}
              THEN <<SelectSeq(group, LAMBDA i : txns[i].id \in duplicate_ids)>>
              ELSE <<>>)
             \o DuplicateGroups(txns, keys, g + 1)

\* Deduplicator.get_duplicate_groups
get_duplicate_groups(txns) == DuplicateGroups(txns, GroupKeys(txns, 1, <<>>), 1)

\* ------------------------------------------------------------------------
\* BalanceCalculator (processing/balance_calculator.py)
\* ------------------------------------------------------------------------
\* config.accounts.get(account_id)
AccountKnown(cfg, account_id) == account_id \in DOMAIN cfg.accounts

\* the keys of by_account in insertion order
RECURSIVE AccountIds(_, _, _)
AccountIds(txns, i, ids) ==
    IF i > Len(txns) THEN ids
    ELSE IF \E k \in 1..Len(ids) : ids[k] = txns[i].account_id
         THEN AccountIds(txns, i + 1, ids)
    ELSE AccountIds(txns, i + 1, Append(ids, txns[i].account_id))

\* by_account[account_id]: the positions of the account's transactions
RECURSIVE AccountTxns(_, _, _)
AccountTxns(txns, account_id, i) ==
    IF i > Len(txns) THEN <<>>
    ELSE IF txns[i].account_id = account_id
         THEN <<i>> \o AccountTxns(txns, account_id, i + 1)
    ELSE AccountTxns(txns, account_id, i + 1)

\* opening_balance of _calculate_account_balances and get_account_summary;
\* an Optional balance or date is <<>> for None and <<v>> for the value v
OpeningBalance(cfg, account_id) ==
    IF AccountKnown(cfg, account_id) /\ cfg.accounts[account_id].opening_balance # <<>>
    THEN cfg.accounts[account_id].opening_balance[1]
    ELSE 0

\* opening_date of _calculate_account_balances
OpeningDate(cfg, account_id) ==
    IF AccountKnown(cfg, account_id)
    THEN cfg.accounts[account_id].opening_balance_date
    ELSE <<>>

\* a transaction before the cutoff adds to the accumulator all the same
BalanceStepCountsExcluded(txn, running_balance, opening_date) ==
    IF opening_date # <<>> /\ txn.date < opening_date[1]
    THEN [txn |-> [txn EXCEPT !.running_balance = <<>>],
          running_balance |-> running_balance + txn.amount]
    ELSE [txn |-> [txn EXCEPT !.running_balance = <<running_balance + txn.amount>>],
          running_balance |-> running_balance + txn.amount]

\* a transaction before the cutoff keeps the balance it was parsed with
BalanceStepKeepsParsed(txn, running_balance, opening_date) ==
    IF opening_date # <<>> /\ txn.date < opening_date[1]
    THEN [txn |-> txn, running_balance |-> running_balance]
    ELSE [txn |-> [txn EXCEPT !.running_balance = <<running_balance + txn.amount>>],
          running_balance |-> running_balance + txn.amount]

\* one turn of the loop of _calculate_account_balances
BalanceStep(txn, running_balance, opening_date) ==
    IF opening_date # <<>> /\ txn.date < opening_date[1]
    THEN [txn |-> [txn EXCEPT !.running_balance = <<>>],
          running_balance |-> running_balance]
    ELSE [txn |-> [txn EXCEPT !.running_balance = <<running_balance + txn.amount>>],
          running_balance |-> running_balance + txn.amount]

\* the loop of _calculate_account_balances over sorted_transactions
RECURSIVE BalanceLoop(_, _, _, _, _)
BalanceLoop(txns, sorted_transactions, k, running_balance, opening_date) ==
    IF k > Len(sorted_transactions) THEN txns
    ELSE LET step == BalanceStep(txns[sorted_transactions[k]], running_balance,
                                 opening_date)
         IN  BalanceLoop([txns EXCEPT ![sorted_transactions[k]] = step.txn],
                         sorted_transactions, k + 1, step.running_balance, opening_date)

\* BalanceCalculator._calculate_account_balances; sorted() has the key of
\* find_duplicates
CalculateAccountBalances(cfg, txns, account_id) ==
    BalanceLoop(txns, SortedGroup(txns, AccountTxns(txns, account_id, 1), <<>>), 1,
                OpeningBalance(cfg, account_id), OpeningDate(cfg, account_id))

\* the loop of calculate_balances over the accounts
RECURSIVE BalancesOfAccounts(_, _, _, _)
BalancesOfAccounts(cfg, txns, ids, a) ==
    IF a > Len(ids) THEN txns
    ELSE BalancesOfAccounts(cfg, CalculateAccountBalances(cfg, txns, ids[a]), ids, a + 1)

\* BalanceCalculator.calculate_balances
calculate_balances(cfg, txns) ==
    BalancesOfAccounts(cfg, txns, AccountIds(txns, 1, <<>>), 1)

\* the sort key of get_account_summary: (date, description, amount, id)
SummaryKeyLess(t1, t2) ==
    IF t1.date # t2.date THEN t1.date < t2.date
    ELSE IF t1.description # t2.description
         THEN StrLess(t1.description, t2.description)
    ELSE IF t1.amount # t2.amount THEN t1.amount < t2.amount
    ELSE t1.id < t2.id

\* sorted_txns[-1] of get_account_summary: the greatest by the key; the ids
\* are unique, so the key orders the transactions totally
LastByKey(txns, account_txns) ==
    CHOOSE i \in {account_txns[k] : k \in 1..Len(account_txns)} :
        \A k \in 1..Len(account_txns) :
            account_txns[k] = i \/ SummaryKeyLess(txns[account_txns[k]], txns[i])

\* sum(txn.amount for txn in account_txns if ...) over the positions from k
RECURSIVE SumAmounts(_, _, _, _)
SumAmounts(txns, account_txns, k, positive) ==
    IF k > Len(account_txns) THEN 0
    ELSE LET amount == txns[account_txns[k]].amount
         IN  (IF (positive /\ amount > 0) \/ (~positive /\ amount < 0) THEN amount ELSE 0)
             + SumAmounts(txns, account_txns, k + 1, positive)

\* the summary of one account in get_account_summary
AccountSummary(cfg, txns, account_id) ==
    LET account_txns == AccountTxns(txns, account_id, 1)
        opening == OpeningBalance(cfg, account_id)
        credits == SumAmounts(txns, account_txns, 1, TRUE)
        debits == SumAmounts(txns, account_txns, 1, FALSE)
        last == txns[LastByKey(txns, account_txns)]
    IN  [opening_balance |-> opening,
         total_credits |-> credits,
         total_debits |-> debits,
         closing_balance |-> IF last.running_balance # <<>>
                             THEN last.running_balance[1]
                             ELSE opening + credits + debits]

\* BalanceCalculator.get_account_summary
get_account_summary(cfg, txns) ==
    [account_id \in {txns[i].account_id : i \in 1..Len(txns)} |->
        AccountSummary(cfg, txns, account_id)]

\* ------------------------------------------------------------------------
\* AnomalyDetector (processing/anomaly_detector.py)
\* ------------------------------------------------------------------------
\* an anomaly reason: its text, and the amount the text of a large
\* transaction is formatted with
Reason(text, amount) == [text |-> text, amount |-> amount]

NoReason == Reason("", 0)

\* AnomalyDetector._is_large_transaction
IsLargeTransaction(anomaly_config, txn) ==
    Abs(txn.amount) >= anomaly_config.large_transaction_threshold

\* a fee check that looks for transfer indicators before the strong keywords
IsFeeTransferFirst(txn) ==
    LET description == UpperStr(txn.description)
    IN  IF \E prefix \in {<<"T", "S", "T", "*">>, <<"S", "Q", " ", "*">>, <<"S", "Q", "U", "*">>, <<"T", "O", "A", "S", "T", "*">>} : StartsWith(description, prefix) THEN FALSE
        ELSE IF \E indicator \in {<<"T", "R", "A", "N", "S", "F", "E", "R">>, <<"V", "E", "N", "M", "O">>, <<"Z", "E", "L", "L", "E">>,
                                   <<"P", "A", "Y", "P", "A", "L">>, <<"A", "C", "H">>, <<"W", "I", "R", "E">>} :
                   Contains(description, indicator)
             THEN FALSE
        ELSE \E keyword \in {<<"F", "E", "E">>, <<"P", "E", "N", "A", "L", "T", "Y">>, <<"O", "V", "E", "R", "D", "R", "A", "F", "T">>, <<"N", "S", "F">>, <<"C", "H", "A", "R", "G", "E">>} :
                 WordBoundarySearch(keyword, description)

\* AnomalyDetector._is_fee
IsFee(txn) ==
    LET description == UpperStr(txn.description)
        merchant_prefixes ==
            { <<"T", "S", "T", "*">>, <<"S", "Q", " ", "*">>, <<"S", "Q", "U", "*">>,
              <<"T", "O", "A", "S", "T", "*">> }
        strong_keywords ==
            { <<"F", "E", "E">>, <<"P", "E", "N", "A", "L", "T", "Y">>,
              <<"O", "V", "E", "R", "D", "R", "A", "F", "T">>, <<"N", "S", "F">>,
              <<"L", "A", "T", "E", " ", "F", "E", "E">>,
              <<"A", "N", "N", "U", "A", "L", " ", "F", "E", "E">>,
              <<"M", "O", "N", "T", "H", "L", "Y", " ", "F", "E", "E">> }
        transfer_indicators ==
            { <<"T", "R", "A", "N", "S", "F", "E", "R">>, <<"V", "E", "N", "M", "O">>,
              <<"Z", "E", "L", "L", "E">>, <<"P", "A", "Y", "P", "A", "L">>, <<"A", "C", "H">>,
              <<"W", "I", "R", "E">> }
        weak_keywords == { <<"C", "H", "A", "R", "G", "E">> }
    IN  IF \E prefix \in merchant_prefixes : StartsWith(description, prefix) THEN FALSE
        ELSE IF \E keyword \in strong_keywords : WordBoundarySearch(keyword, description)
             THEN TRUE
        ELSE IF \E indicator \in transfer_indicators : Contains(description, indicator)
             THEN FALSE
        ELSE \E keyword \in weak_keywords : WordBoundarySearch(keyword, description)

\* AnomalyDetector._is_cash_advance
IsCashAdvance(anomaly_config, txn) ==
    LET description == UpperStr(txn.description)
    IN  \E k \in 1..Len(anomaly_config.cash_advance_keywords) :
            Contains(description, UpperStr(anomaly_config.cash_advance_keywords[k]))

\* one custom pattern of _check_custom_patterns fires: it is not blank, is
\* safe, compiles and is found in the description, case ignored
CustomPatternMatches(pattern, txn) ==
    /\ pattern # <<>>
    /\ Strip(pattern) # <<>>
    /\ IsSafePattern(pattern)
    /\ CompileOk(pattern)
    /\ RegexSearch(pattern, txn.description)

\* the amount-based detection for payment apps of _check_custom_patterns
PeerPaymentReason(txn) ==
    IF Abs(txn.amount) >= 500000
    THEN LET desc_upper == UpperStr(txn.description)
         IN  IF Contains(desc_upper, <<"V", "E", "N", "M", "O">>)
             THEN Reason("Large Venmo transfer ($500+)", 0)
             ELSE IF Contains(desc_upper, <<"Z", "E", "L", "L", "E">>)
                  THEN Reason("Large Zelle transfer ($500+)", 0)
             ELSE NoReason
    ELSE NoReason

\* AnomalyDetector._check_custom_patterns
CheckCustomPatterns(anomaly_config, txn) ==
    LET hits == {i \in 1..Len(anomaly_config.custom_patterns) :
                    CustomPatternMatches(anomaly_config.custom_patterns[i].pattern, txn)}
    IN  IF hits # {}
        THEN Reason(anomaly_config.custom_patterns[MinOf(hits)].reason, 0)
        ELSE PeerPaymentReason(txn)

\* AnomalyDetector._check_transaction
CheckTransaction(anomaly_config, txn) ==
    LET pattern_match == CheckCustomPatterns(anomaly_config, txn)
    IN  (IF IsLargeTransaction(anomaly_config, txn)
         THEN <<Reason("Large transaction", Abs(txn.amount))>> ELSE <<>>)
        \o (IF IsFee(txn) THEN <<Reason("Fee or charge detected", 0)>> ELSE <<>>)
        \o (IF IsCashAdvance(anomaly_config, txn)
            THEN <<Reason("Cash advance detected", 0)>> ELSE <<>>)
        \o (IF pattern_match # NoReason THEN <<pattern_match>> ELSE <<>>)

\* Transaction.add_anomaly
AddAnomaly(txn, reason) ==
    [txn EXCEPT !.is_anomaly = TRUE,
                !.anomaly_reasons =
                    IF \E k \in 1..Len(@) : @[k] = reason THEN @ ELSE Append(@, reason)]

\* the loop of detect_anomalies over the reasons of one transaction
RECURSIVE AddAnomalies(_, _, _)
AddAnomalies(txn, reasons, k) ==
    IF k > Len(reasons) THEN txn
    ELSE AddAnomalies(AddAnomaly(txn, reasons[k]), reasons, k + 1)

\* AnomalyDetector.detect_anomalies
detect_anomalies(cfg, txns) ==
    [i \in 1..Len(txns) |->
        AddAnomalies(txns[i], CheckTransaction(cfg.anomaly, txns[i]), 1)]

\* the sort key of _detect_date_gaps: (date, description, fingerprint). The
\* fingerprint is a SHA-256 prefix; it orders transactions of one date and
\* one description only, which are left in list order here
GapKeyLess(t1, t2) ==
    IF t1.date # t2.date THEN t1.date < t2.date
    ELSE StrLess(t1.description, t2.description)

RECURSIVE InsertByGapKey(_, _, _)
InsertByGapKey(txns, sorted, x) ==
    IF sorted = <<>> THEN <<x>>
    ELSE IF GapKeyLess(txns[x], txns[Head(sorted)]) THEN <<x>> \o sorted
    ELSE <<Head(sorted)>> \o InsertByGapKey(txns, Tail(sorted), x)

\* sorted(account_txns, key=...) of _detect_date_gaps
RECURSIVE SortedByGapKey(_, _, _)
SortedByGapKey(txns, account_txns, done) ==
    IF account_txns = <<>> THEN done
    ELSE SortedByGapKey(txns, Tail(account_txns),
                        InsertByGapKey(txns, done, Head(account_txns)))

\* _detect_date_gaps with two separate tests in place of if / elif
GapRecordsBothSeverities(anomaly_config, account_id, prev_date, curr_date) ==
    LET gap_days == curr_date - prev_date
        gap == [account_id |-> account_id, start_date |-> prev_date,
                end_date |-> curr_date, gap_days |-> gap_days]
    IN  (IF gap_days > anomaly_config.date_gap_alert_days
         THEN <<gap @@ [severity |-> "alert"]>> ELSE <<>>)
        \o (IF gap_days > anomaly_config.date_gap_warning_days
            THEN <<gap @@ [severity |-> "warning"]>> ELSE <<>>)

\* the record _detect_date_gaps appends for two consecutive dates, if any
GapRecords(anomaly_config, account_id, prev_date, curr_date) ==
    LET gap_days == curr_date - prev_date
        gap == [account_id |-> account_id, start_date |-> prev_date,
                end_date |-> curr_date, gap_days |-> gap_days]
    IN  IF gap_days > anomaly_config.date_gap_alert_days
        THEN <<gap @@ [severity |-> "alert"]>>
        ELSE IF gap_days > anomaly_config.date_gap_warning_days
             THEN <<gap @@ [severity |-> "warning"]>>
        ELSE <<>>

\* the loop of _detect_date_gaps over the consecutive transactions
RECURSIVE GapsOfAccount(_, _, _, _, _)
GapsOfAccount(anomaly_config, txns, account_id, sorted_txns, i) ==
    IF i > Len(sorted_txns) THEN <<>>
    ELSE GapRecords(anomaly_config, account_id, txns[sorted_txns[i - 1]].date,
                    txns[sorted_txns[i]].date)
         \o GapsOfAccount(anomaly_config, txns, account_id, sorted_txns, i + 1)

\* the loop of _detect_date_gaps over the accounts
RECURSIVE GapsOfAccounts(_, _, _, _)
GapsOfAccounts(anomaly_config, txns, ids, a) ==
    IF a > Len(ids) THEN <<>>
    ELSE LET account_txns == AccountTxns(txns, ids[a], 1)
         IN  (IF Len(account_txns) < 2 THEN <<>>
              ELSE GapsOfAccount(anomaly_config, txns, ids[a],
                                 SortedByGapKey(txns, account_txns, <<>>), 2))
             \o GapsOfAccounts(anomaly_config, txns, ids, a + 1)

\* AnomalyDetector._detect_date_gaps, AnomalyDetector.get_date_gaps
get_date_gaps(cfg, txns) ==
    GapsOfAccounts(cfg.anomaly, txns, AccountIds(txns, 1, <<>>), 1)

\* ------------------------------------------------------------------------
\* generate_pl_summary (processing/report_generator.py)
\* ------------------------------------------------------------------------
\* cat.category_type.value of the category of a transaction; "skipped" for a
\* transaction without a category or with a category that is not configured
CategoryTypeOf(cfg, txn) ==
    IF txn.category = None THEN "skipped"
    ELSE IF ~CategoryKnown(cfg, txn.category) THEN "skipped"
    ELSE cfg.categories[txn.category].category_type

\* the additions of the loop of generate_pl_summary to one total: t.amount
\* for income and transfers, abs(t.amount) for expenses
RECURSIVE TotalOf(_, _, _, _, _, _)
TotalOf(cfg, txns, cat_type, year, cat_name, k) ==
    IF k > Len(txns) THEN 0
    ELSE (IF /\ CategoryTypeOf(cfg, txns[k]) = cat_type
             /\ YearOf(txns[k].date) = year
             /\ cfg.categories[txns[k].category].name = cat_name
          THEN (IF cat_type = "expense" THEN Abs(txns[k].amount) ELSE txns[k].amount)
          ELSE 0)
         + TotalOf(cfg, txns, cat_type, year, cat_name, k + 1)

\* income_by_year, expense_by_year or transfer_by_year: the totals keyed by
\* year, then by category name
TotalsByYear(cfg, txns, cat_type) ==
    LET typed == {k \in 1..Len(txns) : CategoryTypeOf(cfg, txns[k]) = cat_type}
    IN  [year \in {YearOf(txns[k].date) : k \in typed} |->
            [cat_name \in {cfg.categories[txns[k].category].name :
                              k \in {j \in typed : YearOf(txns[j].date) = year}} |->
                TotalOf(cfg, txns, cat_type, year, cat_name, 1)]]

\* generate_pl_summary(transactions, config); accounts and years are the
\* sets the sorted lists are made of, and an account is named by its id
generate_pl_summary(cfg, txns) ==
    IF txns = <<>>
    THEN [period_start |-> <<>>, period_end |-> <<>>, accounts |-> {}, years |-> {},
          income_by_year |-> <<>>, expense_by_year |-> <<>>, transfer_by_year |-> <<>>]
    ELSE [period_start |-> <<MinOf({txns[k].date : k \in 1..Len(txns)})>>,
          period_end |-> <<MaxOf({txns[k].date : k \in 1..Len(txns)})>>,
          accounts |-> {txns[k].account_id : k \in 1..Len(txns)},
          years |-> {YearOf(txns[k].date) : k \in 1..Len(txns)},
          income_by_year |-> TotalsByYear(cfg, txns, "income"),
          expense_by_year |-> TotalsByYear(cfg, txns, "expense"),
          transfer_by_year |-> TotalsByYear(cfg, txns, "transfer")]

\* ------------------------------------------------------------------------
\* Inputs of the model: categories.yaml, manual_categories.yaml,
\* corrections.yaml and the parsed records
\* ------------------------------------------------------------------------
\* food and auto are top-level, grocery and gas are subcategories, orphan names
\* a parent that is not configured; the id "stale" is configured nowhere
CategoryTable ==
    [id \in {"food", "auto", "grocery", "gas", "orphan"} |->
        [parent_id |-> CASE id = "grocery" -> "food"
                         [] id = "gas" -> "auto"
                         [] id = "orphan" -> "ghost"
                         [] OTHER -> None]]

LongPattern == [i \in 1..(MAX_PATTERN_LENGTH + 1) |-> "a"]

RuleKw ==
    CategoryRule("r_kw", "grocery", << <<"M", "A", "R", "T">> >>, <<>>,
                 NoAmt, NoAmt, {}, 10, TRUE, "substring")
RuleWord ==
    CategoryRule("r_word", "food", << <<"m", "a", "r", "t">> >>, <<>>,
                 NoAmt, NoAmt, {}, 10, TRUE, "word")
RuleRegex ==
    CategoryRule("r_re", "gas", <<>>, << <<"^", "w", "a", "l">> >>,
                 NoAmt, NoAmt, {}, 60, TRUE, "substring")
\* every pattern is refused: nested quantifier, re.error, over-long
RuleRejected ==
    CategoryRule("r_rej", "auto", <<>>,
                 << <<"(", "a", "+", ")", "+">>, <<"(">>, LongPattern >>,
                 NoAmt, NoAmt, {}, 90, TRUE, "substring")
RuleAll ==
    CategoryRule("r_all", "orphan", <<>>, <<>>,
                 NoAmt, NoAmt, {}, 10, TRUE, "substring")
RuleAmount ==
    CategoryRule("r_amt", "stale", <<>>, <<>>,
                 100000, 190000, {"cc"}, 60, TRUE, "substring")

RulePool == {RuleKw, RuleWord, RuleRegex, RuleRejected, RuleAll}

OverrideGas ==
    [date_str |-> <<"2", "0", "2", "4", "-", "0", "1", "-", "0", "5">>,
     amount |-> -42000, keywords |-> << <<"w", "a", "l">> >>,
     category_id |-> "gas", subcategory_id |-> None, priority |-> 0]
OverrideStale ==
    [date_str |-> <<"2", "0", "2", "4", "-", "0", "1", "-", "0", "5">>,
     amount |-> -42000, keywords |-> <<>>,
     category_id |-> "stale", subcategory_id |-> None, priority |-> 5]
OverrideFood ==
    [date_str |-> <<"2", "0", "2", "4", "-", "0", "1", "-", "0", "5">>,
     amount |-> -42000, keywords |-> << <<"M", "A", "R", "T">> >>,
     category_id |-> "food", subcategory_id |-> "grocery", priority |-> 5]

OverridePool == {OverrideGas, OverrideStale, OverrideFood}

RawWalMart ==
    [date |-> 5, description |-> <<"W", "a", "l", " ", "M", "a", "r", "t">>,
     amount |-> -42000, account_id |-> "chk", source_file |-> <<"j", "a", "n">>,
     check_number |-> None, balance |-> <<>>]

\* same fingerprint as RawWalMart: case, blanks and the third decimal differ
RawWalMartVariant ==
    [date |-> 5,
     description |-> <<" ", "W", "A", "L", " ", " ", "M", "A", "R", "T", " ">>,
     amount |-> -42004, account_id |-> "chk", source_file |-> <<"j", "a", "n">>,
     check_number |-> None, balance |-> <<>>]

RawGas ==
    [date |-> 6,
     description |-> <<"W", "A", "L", "M", "A", "R", "T", " ", "G", "A", "S">>,
     amount |-> -150000, account_id |-> "cc", source_file |-> <<"c", "c">>,
     check_number |-> None, balance |-> <<>>]

RawPool == {RawWalMart, RawWalMartVariant, RawGas}

\* an Optional balance or date is <<>> for None and <<v>> for the value v
\* accounts.yaml: the checking account is not configured, has an opening
\* balance without a date, with a date, or a date without a balance; the card
\* account has both
AccountPool ==
    { [a \in {"cc"} |-> [opening_balance |-> <<-50000>>, opening_balance_date |-> <<6>>]] }
    \cup
    { [a \in {"chk", "cc"} |->
          IF a = "cc" THEN [opening_balance |-> <<-50000>>, opening_balance_date |-> <<6>>]
          ELSE chk] :
        chk \in { [opening_balance |-> <<100000>>, opening_balance_date |-> <<>>],
                  [opening_balance |-> <<100000>>, opening_balance_date |-> <<5>>],
                  [opening_balance |-> <<>>, opening_balance_date |-> <<4>>] } }

\* the records the balance calculator is exercised on; BalPay and BalPayAgain
\* differ in the balance column of the statement only
BalAtm ==
    [date |-> 3, description |-> <<"A", "T", "M">>, amount |-> -20000,
     account_id |-> "chk", source_file |-> <<"a">>, check_number |-> None,
     balance |-> <<777000>>]

BalPay ==
    [date |-> 5, description |-> <<"P", "A", "Y">>, amount |-> 150000,
     account_id |-> "chk", source_file |-> <<"a">>, check_number |-> None,
     balance |-> <<>>]

BalPayAgain == [BalPay EXCEPT !.balance = <<5000>>]

BalRent ==
    [date |-> 6, description |-> <<"R", "E", "N", "T">>, amount |-> -90000,
     account_id |-> "chk", source_file |-> <<"a">>, check_number |-> None,
     balance |-> <<>>]

BalGas ==
    [date |-> 4, description |-> <<"G", "A", "S">>, amount |-> -30000,
     account_id |-> "cc", source_file |-> <<"c">>, check_number |-> None,
     balance |-> <<>>]

BalGasLater == [BalGas EXCEPT !.date = 7]

BalanceRawPool == {BalAtm, BalPay, BalPayAgain, BalRent, BalGas, BalGasLater}

\* settings.yaml, anomaly_detection. Thresholds: the defaults, a lower amount
\* threshold with equal day thresholds, and an alert threshold under the
\* warning threshold. custom_patterns: none; one pattern naming a payment
\* app; an unsafe pattern before a usable one; a blank and an invalid pattern
\* before two usable ones
AnomalyPool ==
    { [DefaultAnomalyConfig EXCEPT !.large_transaction_threshold = th.large,
                                   !.date_gap_warning_days = th.warning,
                                   !.date_gap_alert_days = th.alert,
                                   !.custom_patterns = patterns] :
        th \in
            { [large |-> 5000000, warning |-> 7, alert |-> 30],
              [large |-> 500000, warning |-> 7, alert |-> 7],
              [large |-> 5000000, warning |-> 30, alert |-> 7] },
        patterns \in
            { <<>>,
              <<[pattern |-> <<"v", "e", "n", "m", "o">>, reason |-> "Peer payment"]>>,
              <<[pattern |-> <<"(", "a", "+", ")", "+">>, reason |-> "Nested"],
                [pattern |-> <<"f", "e", "e">>, reason |-> "Fee watch"]>>,
              <<[pattern |-> <<" ">>, reason |-> "Blank"],
                [pattern |-> <<"(">>, reason |-> "Invalid"],
                [pattern |-> <<"t", "r", "a", "n", "s", "f", "e", "r">>, reason |-> "Transfer watch"],
                [pattern |-> <<"z", "e", "l", "l", "e">>, reason |-> "Zelle watch"]>> } }

\* the records the anomaly detector is exercised on: the checking account
\* has transactions 7, 8, 32 and 40 days apart
AnomalyRawPool ==
    { [date |-> 1, description |-> <<"V", "e", "n", "m", "o", " ", "p", "a", "y", "m", "e", "n", "t">>,
       amount |-> -600000, account_id |-> "chk", source_file |-> <<"a">>, check_number |-> None,
       balance |-> <<>>],
      [date |-> 8, description |-> <<"T", "S", "T", "*", " ", "L", "A", "T", "E", " ", "C", "H", "A", "R", "G", "E">>,
       amount |-> -20000, account_id |-> "chk", source_file |-> <<"a">>, check_number |-> None,
       balance |-> <<>>],
      [date |-> 9, description |-> <<"A", "T", "M", " ", "W", "I", "T", "H", "D", "R", "A", "W", "A", "L", " ", "F", "E", "E">>,
       amount |-> -3000, account_id |-> "chk", source_file |-> <<"a">>, check_number |-> None,
       balance |-> <<>>],
      [date |-> 41, description |-> <<"Z", "E", "L", "L", "E", " ", "T", "R", "A", "N", "S", "F", "E", "R">>,
       amount |-> 6000000, account_id |-> "chk", source_file |-> <<"a">>, check_number |-> None,
       balance |-> <<>>],
      [date |-> 1, description |-> <<"S", "E", "R", "V", "I", "C", "E", " ", "C", "H", "A", "R", "G", "E">>,
       amount |-> -10000, account_id |-> "cc", source_file |-> <<"c">>, check_number |-> None,
       balance |-> <<>>],
      [date |-> 41, description |-> <<"C", "A", "S", "I", "N", "O">>,
       amount |-> -500000, account_id |-> "cc", source_file |-> <<"c">>, check_number |-> None,
       balance |-> <<>>] }

\* categories.yaml for the report: dining and takeout share the name
\* Dining; in the second configuration dining is an income category
ReportCategoryPool ==
    { [id \in {"dining", "takeout", "groceries", "salary", "transfers"} |->
          [parent_id |-> None,
           name |-> CASE id \in {"dining", "takeout"} -> "Dining"
                      [] id = "groceries" -> "Groceries"
                      [] id = "salary" -> "Salary"
                      [] OTHER -> "Transfers",
           category_type |-> CASE id = "dining" -> dining_type
                               [] id \in {"takeout", "groceries"} -> "expense"
                               [] id = "salary" -> "income"
                               [] OTHER -> "transfer"]] :
        dining_type \in {"expense", "income"} }

\* the records the report is generated from, with the category each of them
\* was given: expenses, refunds, an expense of the next year, income, a
\* transfer, an uncategorized record and one of an unconfigured category
ReportPool ==
    { [raw |-> [date |-> 15, description |-> <<"D", "I", "N", "N", "E", "R">>,
              amount |-> -100000, account_id |-> "chk", source_file |-> <<"a">>, check_number |-> None,
              balance |-> <<>>],
        category |-> "dining"],
      [raw |-> [date |-> 16, description |-> <<"L", "U", "N", "C", "H">>,
              amount |-> -30000, account_id |-> "chk", source_file |-> <<"a">>, check_number |-> None,
              balance |-> <<>>],
        category |-> "takeout"],
      [raw |-> [date |-> 20, description |-> <<"R", "E", "F", "U", "N", "D">>,
              amount |-> 30000, account_id |-> "chk", source_file |-> <<"a">>, check_number |-> None,
              balance |-> <<>>],
        category |-> "dining"],
      [raw |-> [date |-> 25, description |-> <<"B", "I", "G", " ", "R", "E", "F", "U", "N", "D">>,
              amount |-> 100000, account_id |-> "cc", source_file |-> <<"c">>, check_number |-> None,
              balance |-> <<>>],
        category |-> "dining"],
      [raw |-> [date |-> 25, description |-> <<"B", "I", "G", " ", "R", "E", "F", "U", "N", "D">>,
              amount |-> 100000, account_id |-> "cc", source_file |-> <<"c">>, check_number |-> None,
              balance |-> <<>>],
        category |-> "ghost"],
      [raw |-> [date |-> 380, description |-> <<"M", "A", "R", "K", "E", "T">>,
              amount |-> -50000, account_id |-> "cc", source_file |-> <<"c">>, check_number |-> None,
              balance |-> <<>>],
        category |-> "groceries"],
      [raw |-> [date |-> 380, description |-> <<"M", "A", "R", "K", "E", "T">>,
              amount |-> -50000, account_id |-> "cc", source_file |-> <<"c">>, check_number |-> None,
              balance |-> <<>>],
        category |-> None],
      [raw |-> [date |-> 10, description |-> <<"S", "A", "L", "A", "R", "Y">>,
              amount |-> 200000, account_id |-> "chk", source_file |-> <<"a">>, check_number |-> None,
              balance |-> <<>>],
        category |-> "salary"],
      [raw |-> [date |-> 12, description |-> <<"T", "R", "A", "N", "S", "F", "E", "R">>,
              amount |-> -70000, account_id |-> "chk", source_file |-> <<"a">>, check_number |-> None,
              balance |-> <<>>],
        category |-> "transfers"] }

WalMartFingerprint ==
    <<IsoFormat(5), <<"w", "a", "l", " ", "m", "a", "r", "t">>, -4200, "chk">>

CorrectionPool ==
    { [fingerprint |-> WalMartFingerprint, category_id |-> c[1], subcategory_id |-> c[2]] :
        c \in { <<"food", None>>, <<"grocery", None>>, <<"orphan", None>>,
                <<"stale", None>>, <<"food", "gas">>, <<"food", "grocery">>,
                <<"food", "auto">> } }

CorrectionFood ==
    [fingerprint |-> WalMartFingerprint, category_id |-> "food", subcategory_id |-> None]

Num(v) == [kind |-> "num", v |-> v]
NaN == [kind |-> "nan", v |-> 0]
NotANumber == [kind |-> "bad", v |-> 0]

\* items of a batch answer
BatchItemPool ==
    { [index |-> 1, category_id |-> "food", confidence |-> Num(1300)],
      [index |-> 1, category_id |-> "uncategorized", confidence |-> Num(650)],
      [index |-> 2, category_id |-> "auto", confidence |-> Num(-200)],
      [index |-> 2, category_id |-> "gas", confidence |-> NaN],
      [index |-> 1, category_id |-> "auto", confidence |-> NotANumber],
      [index |-> 3, category_id |-> "food", confidence |-> Num(650)],
      [index |-> 0, category_id |-> "food", confidence |-> Num(650)] }

\* answers to a single categorization request
SingleAnswerPool ==
    { [kind |-> "raise", category_id |-> None, confidence |-> Num(0)],
      [kind |-> "parse_error", category_id |-> None, confidence |-> Num(0)],
      [kind |-> "dict", category_id |-> "food", confidence |-> Num(1300)],
      [kind |-> "dict", category_id |-> "uncategorized", confidence |-> Num(650)],
      [kind |-> "dict", category_id |-> "auto", confidence |-> Num(-200)],
      [kind |-> "dict", category_id |-> "gas", confidence |-> NaN],
      [kind |-> "dict", category_id |-> "food", confidence |-> NotANumber] }

\* answers to a validation request
ValidationAnswerPool ==
    { [kind |-> "raise", validated |-> FALSE, suggested_category_id |-> None,
       confidence |-> Num(0)],
      [kind |-> "parse_error", validated |-> FALSE, suggested_category_id |-> None,
       confidence |-> Num(0)],
      [kind |-> "dict", validated |-> TRUE, suggested_category_id |-> "food",
       confidence |-> Num(650)],
      [kind |-> "dict", validated |-> FALSE, suggested_category_id |-> "food",
       confidence |-> Num(1300)],
      [kind |-> "dict", validated |-> FALSE, suggested_category_id |-> "auto",
       confidence |-> Num(950)],
      [kind |-> "dict", validated |-> FALSE, suggested_category_id |-> "gas",
       confidence |-> Num(650)],
      [kind |-> "dict", validated |-> FALSE, suggested_category_id |-> "food",
       confidence |-> NaN] }

\* sequences of at most n elements of S
RECURSIVE ListsUpTo(_, _)
ListsUpTo(S, n) ==
    IF n = 0 THEN {<<>>}
    ELSE LET shorter == ListsUpTo(S, n - 1)
         IN  shorter \cup
             { Append(l, x) : l \in { m \in shorter : Len(m) = n - 1 },
                              x \in S } 

\* the sequences among them that name no element twice
NoRepeat(l) == \A i, j \in 1..Len(l) : i # j => l[i] # l[j]

DistinctListsUpTo(S, n) == { l \in ListsUpTo(S, n) : NoRepeat(l) }

\* ------------------------------------------------------------------------
\* State
\* ------------------------------------------------------------------------
VARIABLES
    config,         \* the Config the stages are constructed with
    transactions,   \* the transaction collection the stages mutate in place
    reordered,      \* the same transactions in a second run: in another list
                    \* order, or with other ids
    result,         \* the value the last reporting operation returned
    lastOp          \* the stage that ran last

vars == <<config, transactions, reordered, result, lastOp>>

\* nothing has been reported
NoResult == [kind |-> "none"]

Init ==
    /\ config = EmptyConfig
    /\ transactions = <<>>
    /\ reordered = <<>>
    /\ result = NoResult
    /\ lastOp = "init"

\* load_config: categories.yaml, manual_categories.yaml, corrections.yaml
LoadConfig ==
    /\ lastOp = "init"
    /\ \E rule_list \in DistinctListsUpTo(RulePool, MaxRules),
          override_list \in DistinctListsUpTo(OverridePool, MaxOverrides),
          correction_list \in ListsUpTo(CorrectionPool, 1) :
            config' = LoadedConfig(CategoryTable, rule_list, override_list, correction_list)
    /\ lastOp' = "load_config"
    /\ UNCHANGED <<transactions, reordered, result>>

\* Normalizer.normalize: the parsed records become the transaction collection
Normalize ==
    /\ lastOp = "load_config"
    /\ \E raws \in DistinctListsUpTo(RawPool, MaxTxns) :
          /\ raws # <<>>
          /\ transactions' = [i \in 1..Len(raws) |-> NormalizeTransaction(raws[i], i)]
    /\ lastOp' = "normalize"
    /\ UNCHANGED <<config, reordered, result>>

\* Categorizer.categorize(transactions)
Categorize ==
    /\ transactions # <<>>
    /\ transactions' = CategorizeAll(config, transactions)
    /\ lastOp' = "categorize"
    /\ UNCHANGED <<config, reordered, result>>

\* answers to one batch request
BatchResponses ==
    { [kind |-> "raise", items |-> <<>>], [kind |-> "dict", items |-> <<>>] }
    \cup { [kind |-> "list", items |-> l] : l \in ListsUpTo(BatchItemPool, MaxItems) }

\* load_config with the configurations the AI stages are exercised on: one
\* narrow amount rule, one manual override, with and without a correction
LoadConfigAI ==
    /\ lastOp = "init"
    /\ \E correction_list \in {<<>>, <<CorrectionFood>>} :
          config' = LoadedConfig(CategoryTable, <<RuleAmount>>, <<OverrideGas>>,
                                 correction_list)
    /\ lastOp' = "load_config"
    /\ UNCHANGED <<transactions, reordered, result>>

\* load_config with the same configurations and the validation threshold
\* written as 0.7 or as 1.5
LoadConfigThreshold ==
    /\ lastOp = "init"
    /\ \E correction_list \in {<<>>, <<CorrectionFood>>}, raw_val_thresh \in {700, 1500} :
          config' = [LoadedConfig(CategoryTable, <<RuleAmount>>, <<OverrideGas>>,
                                  correction_list)
                     EXCEPT !.validation_threshold =
                                ValidationThresholdFromDict(raw_val_thresh)]
    /\ lastOp' = "load_config"
    /\ UNCHANGED <<transactions, reordered, result>>

\* AICategorizer.categorize_uncategorized(transactions, use_batch=True)
AICategorizeUncategorized ==
    /\ transactions # <<>>
    /\ \E response \in BatchResponses :
          transactions' =
              LET sel == UncategorizedPositions(transactions, 1)
              IN  IF sel = <<>> THEN transactions
                  ELSE CategorizeBatch(transactions, sel, response)
    /\ lastOp' = "ai_categorize"
    /\ UNCHANGED <<config, reordered, result>>

\* AICategorizer.categorize_uncategorized(transactions, use_batch=False)
AICategorizeUncategorizedSingle ==
    /\ transactions # <<>>
    /\ LET sel == UncategorizedPositions(transactions, 1)
       IN  \E answers \in [1..Len(sel) -> SingleAnswerPool] :
              transactions' =
                  [i \in 1..Len(transactions) |->
                      IF \E k \in 1..Len(sel) : sel[k] = i
                      THEN CategorizeSingle(transactions[i],
                               answers[CHOOSE k \in 1..Len(sel) : sel[k] = i])
                      ELSE transactions[i]]
    /\ lastOp' = "ai_categorize"
    /\ UNCHANGED <<config, reordered, result>>

\* AICategorizer.categorize_batch(transactions) called on the whole collection
AICategorizeBatch ==
    /\ transactions # <<>>
    /\ \E response \in BatchResponses :
          transactions' =
              CategorizeBatch(transactions, [i \in 1..Len(transactions) |-> i], response)
    /\ lastOp' = "ai_batch"
    /\ UNCHANGED <<config, reordered, result>>

\* AICategorizer.categorize_batch(transactions) on transactions as the
\* normalizer left them, with the BatchResult it returns
AICategorizeBatchResult ==
    /\ lastOp = "normalize"
    /\ transactions # <<>>
    /\ \E response \in BatchResponses :
          /\ transactions' =
                CategorizeBatch(transactions, [i \in 1..Len(transactions) |-> i], response)
          /\ result' = [kind |-> "batch_result", n |-> Len(transactions),
                        response |-> response,
                        value |-> BatchResult(Len(transactions), response)]
    /\ lastOp' = "ai_batch"
    /\ UNCHANGED <<config, reordered>>

\* AICategorizer.validate_low_confidence(transactions)
AIValidateLowConfidence ==
    /\ transactions # <<>>
    /\ LET to_validate == LowConfidencePositions(config, transactions, 1)
       IN  \E answers \in [1..Len(to_validate) -> ValidationAnswerPool] :
              transactions' = ValidateLoop(transactions, to_validate, answers, 1)
    /\ lastOp' = "ai_validate"
    /\ UNCHANGED <<config, reordered, result>>

\* Normalizer.normalize for the deduplicator: the same transactions as two
\* lists, in the parsed order and in any other order
NormalizeForDedup ==
    /\ lastOp = "init"
    /\ \E raws \in DistinctListsUpTo(DedupRawPool, MaxDedup) :
          /\ raws # <<>>
          /\ transactions' = [i \in 1..Len(raws) |-> NormalizeTransaction(raws[i], i)]
          /\ \E order \in Permutations(1..Len(raws)) :
                reordered' = [i \in 1..Len(raws) |-> transactions'[order[i]]]
    /\ lastOp' = "normalize"
    /\ UNCHANGED <<config, result>>

\* Deduplicator.find_duplicates(transactions), on either list
FindDuplicates ==
    /\ transactions # <<>>
    /\ transactions' = find_duplicates(transactions)
    /\ reordered' = find_duplicates(reordered)
    /\ lastOp' = "find_duplicates"
    /\ UNCHANGED <<config, result>>

\* Deduplicator.get_duplicate_groups(transactions); a group is a list of
\* positions of transactions, which find_duplicates leaves in place
GetDuplicateGroups ==
    /\ transactions # <<>>
    /\ result' = [kind |-> "duplicate_groups", groups |-> get_duplicate_groups(transactions)]
    /\ UNCHANGED <<config, transactions, reordered, lastOp>>

\* load_config: accounts.yaml
LoadAccounts ==
    /\ lastOp = "init"
    /\ \E accounts \in AccountPool : config' = [EmptyConfig EXCEPT !.accounts = accounts]
    /\ lastOp' = "load_config"
    /\ UNCHANGED <<transactions, reordered, result>>

\* Normalizer.normalize for the balance calculator: the same transactions in
\* two runs, which differ in the ids uuid4 hands out
NormalizeForBalance ==
    /\ lastOp = "load_config"
    /\ \E raws \in DistinctListsUpTo(BalanceRawPool, MaxBalance) :
          /\ raws # <<>>
          /\ transactions' = [i \in 1..Len(raws) |-> NormalizeTransaction(raws[i], i)]
          /\ \E ids \in Permutations(1..Len(raws)) :
                reordered' = [i \in 1..Len(raws) |-> NormalizeTransaction(raws[i], ids[i])]
    /\ lastOp' = "normalize"
    /\ UNCHANGED <<config, result>>

\* BalanceCalculator.calculate_balances(transactions), in either run
CalculateBalances ==
    /\ transactions # <<>>
    /\ transactions' = calculate_balances(config, transactions)
    /\ reordered' = calculate_balances(config, reordered)
    /\ result' = NoResult
    /\ lastOp' = "calculate_balances"
    /\ UNCHANGED config

\* BalanceCalculator.get_account_summary(transactions), in either run
GetAccountSummary ==
    /\ transactions # <<>>
    /\ result' = [kind |-> "account_summary",
                  first |-> get_account_summary(config, transactions),
                  second |-> get_account_summary(config, reordered)]
    /\ UNCHANGED <<config, transactions, reordered, lastOp>>

\* load_config: settings.yaml, anomaly_detection
LoadAnomalySettings ==
    /\ lastOp = "init"
    /\ \E anomaly \in AnomalyPool : config' = [EmptyConfig EXCEPT !.anomaly = anomaly]
    /\ lastOp' = "load_config"
    /\ UNCHANGED <<transactions, reordered, result>>

\* Normalizer.normalize for the anomaly detector
NormalizeForAnomaly ==
    /\ lastOp = "load_config"
    /\ \E raws \in DistinctListsUpTo(AnomalyRawPool, MaxAnomaly) :
          /\ raws # <<>>
          /\ transactions' = [i \in 1..Len(raws) |-> NormalizeTransaction(raws[i], i)]
    /\ lastOp' = "normalize"
    /\ UNCHANGED <<config, reordered, result>>

\* AnomalyDetector.detect_anomalies(transactions)
DetectAnomalies ==
    /\ lastOp = "normalize"
    /\ transactions # <<>>
    /\ transactions' = detect_anomalies(config, transactions)
    /\ result' = NoResult
    /\ lastOp' = "detect_anomalies"
    /\ UNCHANGED <<config, reordered>>

\* AnomalyDetector.get_date_gaps(transactions)
GetDateGaps ==
    /\ lastOp \in {"normalize", "detect_anomalies"}
    /\ transactions # <<>>
    /\ result' = [kind |-> "date_gaps", gaps |-> get_date_gaps(config, transactions)]
    /\ UNCHANGED <<config, transactions, reordered, lastOp>>

\* load_config: categories.yaml of the report
LoadReportCategories ==
    /\ lastOp = "init"
    /\ \E categories \in ReportCategoryPool :
          config' = [EmptyConfig EXCEPT !.categories = categories]
    /\ lastOp' = "load_config"
    /\ UNCHANGED <<transactions, reordered, result>>

\* the processed transactions handed to the report: Transaction(...,
\* category=category)
ImportCategorized ==
    /\ lastOp = "load_config"
    /\ \E items \in DistinctListsUpTo(ReportPool, MaxReport) :
          transactions' =
              [i \in 1..Len(items) |->
                  [NormalizeTransaction(items[i].raw, i) EXCEPT
                      !.category = items[i].category,
                      !.is_uncategorized = (items[i].category = None)]]
    /\ lastOp' = "import"
    /\ UNCHANGED <<config, reordered, result>>

\* generate_pl_summary(transactions, config)
GeneratePLSummary ==
    /\ lastOp = "import"
    /\ result' = [kind |-> "pl_summary",
                  summary |-> generate_pl_summary(config, transactions)]
    /\ UNCHANGED <<config, transactions, reordered, lastOp>>

\* the confidences a MatchResult is constructed with, in thousandths: the
\* range [0.0, 1.0] and what lies MaxOvershoot thousandths around it
\* MatchResult(matched=True, confidence=..., matched_by=..., matched_value=...),
\* constructed once
ConstructMatchResult ==
    /\ lastOp = "init"
    /\ result = NoResult
    /\ \E confidence \in (0 - MaxOvershoot)..(1000 + MaxOvershoot), matched_by \in {"keyword", "regex"} :
          result' = [kind |-> "match_result", given |-> confidence,
                     value |-> MatchResult(confidence, matched_by, <<"t", "e", "s", "t">>, <<>>)]
    /\ UNCHANGED <<config, transactions, reordered, lastOp>>

\* rule.matches(description, amount, account_id), called once. The rules
\* have no keyword, a long keyword the description starts with, a short one
\* inside it or one that is absent; no pattern, anchored patterns of 4, 12 and
\* 21 characters, a pattern with boundary markers, a refused pattern before a
\* usable one, or a refused pattern alone; a priority of 10, 60 or 100; no
\* amount window, a narrow one or one the amount lies outside of; no account
\* list or the card account only
MatchRule ==
    /\ lastOp = "init"
    /\ result = NoResult
    /\ \E keywords \in { <<>>, << <<"w", "a", "l", " ", "m", "a", "r", "t", " ", "s", "u", "p", "e", "r", "c", "e", "n", "t", "e", "r">> >>,
                          << <<"M", "A", "R", "T">> >>, << <<"z", "z", "z">> >> },
          regex_patterns \in { <<>>, << <<"^", "w", "a", "l">> >>, << <<"^", "w", "a", "l", " ", "m", "a", "r", "t", " ", "s", "u">> >>,
                                << <<"^", "w", "a", "l", " ", "m", "a", "r", "t", " ", "s", "u", "p", "e", "r", "c", "e", "n", "t", "e", "r">> >>,
                                << <<"\\", "b", "m", "a", "r", "t", "\\", "b">> >>,
                                << <<"(">>, <<"m", "a", "r", "t">> >>, << <<"(">> >> },
          priority \in {10, 60, 100},
          window \in { <<NoAmt, NoAmt>>, <<40000, 45000>>, <<100000, 200000>> },
          account_ids \in { {}, {"cc"} },
          is_active \in BOOLEAN,
          match_mode \in {"substring", "word"},
          description \in { <<"W", "a", "l", " ", "M", "a", "r", "t", " ", "S", "u", "p", "e", "r", "c", "e", "n", "t", "e", "r">>,
                            <<"G", "A", "S">> },
          account_id \in {"chk", "cc"} :
          LET rule == CategoryRule("r", "food", keywords, regex_patterns, window[1],
                                   window[2], account_ids, priority, is_active, match_mode)
          IN  result' = [kind |-> "rule_match", rule |-> rule, description |-> description,
                         amount |-> -42000, account_id |-> account_id,
                         value |-> RuleMatches(rule, description, -42000, account_id)]
    /\ UNCHANGED <<config, transactions, reordered, lastOp>>

\* AnomalyDetector._is_fee(txn) on a description put together from a
\* merchant prefix, a fee keyword, a transfer indicator and a weak keyword,
\* each present or absent, as a whole word or inside a longer one
CheckFee ==
    /\ lastOp = "init"
    /\ result = NoResult
    /\ \E prefix \in { <<>>, <<"T", "S", "T", "*", " ">>, <<"s", "q", " ", "*">>, <<"T", "o", "a", "s", "t", "*">> },
          strong \in { <<>>, <<"L", "A", "T", "E", " ", "F", "E", "E", " ">>, <<"n", "s", "f", " ">>, <<"F", "E", "E", "S", " ">>, <<"O", "V", "E", "R", "D", "R", "A", "F", "T", " ">> },
          transfer \in { <<>>, <<"V", "E", "N", "M", "O", " ">>, <<"W", "i", "r", "e", " ">>, <<"A", "C", "H", "I", "E", "V", "E", " ">> },
          weak \in { <<>>, <<"C", "H", "A", "R", "G", "E">>, <<"C", "H", "A", "R", "G", "E", "S">>, <<"R", "e", "c", "h", "a", "r", "g", "e">> } :
          LET description == prefix \o strong \o transfer \o weak
          IN  result' = [kind |-> "is_fee", description |-> description,
                         value |-> IsFee([description |-> description])]
    /\ UNCHANGED <<config, transactions, reordered, lastOp>>

\* AIClient(config): the cost estimator starts with nothing spent;
\* budget_limit is None or an amount that is not negative
CreateClient ==
    /\ lastOp = "init"
    /\ result = NoResult
    /\ \E budget_limit \in {NoAmt, 0, 6000, 10000} :
          result' = [kind |-> "ai_client", max_tokens |-> 150,
                     budget_limit |-> budget_limit, current_spend |-> 0,
                     request_count |-> 0, outcome |-> "created",
                     estimated_cost |-> 0, remaining |-> 0, issued |-> FALSE]
    /\ lastOp' = "create_client"
    /\ UNCHANGED <<config, transactions, reordered>>

\* AIClient.send_message on prompts of prompt_len characters; the request is
\* made by _make_request, which either fails on every attempt or returns the
\* token usage the API reports and records its cost
SendMessage ==
    /\ result.kind = "ai_client"
    /\ result.request_count < MaxRequests
    /\ \E prompt_len \in {400, 4000}, api_fails \in BOOLEAN,
          usage \in { <<100, 50>>, <<250, 150>>, <<2000, 150>> } :
          LET estimated_tokens == (prompt_len \div 4) + result.max_tokens
              estimated_cost == EstimateCost(estimated_tokens, result.max_tokens)
              remaining == IF result.budget_limit = NoAmt THEN NoAmt
                           ELSE result.budget_limit - result.current_spend
              attempted == [result EXCEPT !.estimated_cost = estimated_cost,
                                          !.remaining = remaining]
          IN  result' =
                  IF ~CheckBudget(result, estimated_cost)
                  THEN [attempted EXCEPT !.outcome = "BudgetExceededError",
                                         !.issued = FALSE]
                  ELSE IF api_fails
                  THEN [attempted EXCEPT !.outcome = "AIClientError", !.issued = TRUE]
                  ELSE [attempted EXCEPT !.outcome = "returned", !.issued = TRUE,
                                         !.request_count = @ + 1,
                                         !.current_spend =
                                             @ + EstimateCost(usage[1], usage[2])]
    /\ lastOp' = "send_message"
    /\ UNCHANGED <<config, transactions, reordered>>

Next == LoadConfig \/ Normalize \/ Categorize

Spec == Init /\ [][Next]_vars

\* the categorizer together with the AI stages, in any order
NextAI ==
    \/ LoadConfigAI
    \/ Normalize
    \/ Categorize
    \/ AICategorizeUncategorized
    \/ AICategorizeUncategorizedSingle
    \/ AICategorizeBatch
    \/ AIValidateLowConfidence

SpecAI == Init /\ [][NextAI]_vars

\* the deduplicator
NextDedup == NormalizeForDedup \/ FindDuplicates

SpecDedup == Init /\ [][NextDedup]_vars

\* the duplicate groups of normalized transactions
NextGroups == NormalizeForDedup \/ GetDuplicateGroups

SpecGroups == Init /\ [][NextGroups]_vars


\* the balance calculator
NextBalance == LoadAccounts \/ NormalizeForBalance \/ CalculateBalances \/ GetAccountSummary

SpecBalance == Init /\ [][NextBalance]_vars

\* the anomaly detector on its own
NextAnomaly == LoadAnomalySettings \/ NormalizeForAnomaly \/ DetectAnomalies \/ GetDateGaps

SpecAnomaly == Init /\ [][NextAnomaly]_vars

\* the construction of a MatchResult on its own
NextMatchResult == ConstructMatchResult

SpecMatchResult == Init /\ [][NextMatchResult]_vars

\* the report on its own
NextReport == LoadReportCategories \/ ImportCategorized \/ GeneratePLSummary

SpecReport == Init /\ [][NextReport]_vars

\* CategoryRule.matches on its own
NextRule == MatchRule

\* the categorizer, categorize_uncategorized and validate_low_confidence, in
\* any order, under a configured validation threshold
NextReviewed ==
    \/ LoadConfigThreshold
    \/ Normalize
    \/ Categorize
    \/ AICategorizeUncategorized
    \/ AICategorizeUncategorizedSingle
    \/ AIValidateLowConfidence

SpecReviewed == Init /\ [][NextReviewed]_vars

NextBatch == LoadConfigAI \/ Normalize \/ AICategorizeBatchResult

\* categorize_batch with its return value
SpecBatch == Init /\ [][NextBatch]_vars

NextClient == CreateClient \/ SendMessage

\* the AI client and its budget
SpecClient == Init /\ [][NextClient]_vars

NextFee == CheckFee

\* _is_fee applied to one description
SpecFee == Init /\ [][NextFee]_vars

SpecRule == Init /\ [][NextRule]_vars

\* ------------------------------------------------------------------------
\* Properties of the categorizer
\* ------------------------------------------------------------------------
Txns == {transactions[i] : i \in 1..Len(transactions)}
TxnIdx == 1..Len(transactions)

\* the configuration with corrections.yaml absent
WithoutCorrections(cfg) == [cfg EXCEPT !.corrections = <<>>]

CorrectionFor(txn) == FindMatchingCorrection(config, txn)

\* some rule of the configuration matches the transaction
MatchesSomeRule(txn) == FindMatchingRule(config, txn) # 0

MatchesSomeOverride(txn) == FindMatchingOverride(config, txn) # 0

\* the correction's category as main category, or as subcategory under its parent
ResolvedToCorrection(txn, correction) ==
    /\ txn.category_source = "correction"
    /\ txn.confidence_score = 1000
    /\ \/ txn.category = correction.category_id
       \/ /\ HasParent(config, correction.category_id)
          /\ txn.category = config.categories[correction.category_id].parent_id
          /\ txn.subcategory = correction.category_id

\* C2: a transaction whose fingerprint has a correction referencing a known
\* category and which also matches a rule or a manual override is resolved,
\* by categorize, to the correction's category with source "correction" and
\* confidence 1.0, never to the rule's category.
C2_CorrectionPrecedence ==
    lastOp = "categorize" =>
        \A txn \in Txns :
            ( /\ CorrectionFor(txn) # NoCorrection
              /\ CategoryKnown(config, CorrectionFor(txn).category_id)
              /\ (MatchesSomeRule(txn) \/ MatchesSomeOverride(txn)) )
            => ResolvedToCorrection(txn, CorrectionFor(txn))

\* C3: a correction whose category id is not configured is not applied, and
\* categorize leaves the transaction in exactly the state it reaches when no
\* correction exists (overrides, then rules, else unchanged).
C3_StaleCorrectionFallsThrough ==
    [][Categorize =>
        \A i \in TxnIdx :
            ( /\ CorrectionFor(transactions[i]) # NoCorrection
              /\ ~CategoryKnown(config, CorrectionFor(transactions[i]).category_id) )
            => transactions'[i] =
                   CategorizeTransaction(WithoutCorrections(config), transactions[i])]_vars

C3_Witness ==
    /\ lastOp = "categorize"
    /\ \E txn \in Txns :
          /\ CorrectionFor(txn) # NoCorrection
          /\ ~CategoryKnown(config, CorrectionFor(txn).category_id)
          /\ txn.category_source = "rule"

\* the correction names a subcategory that does not belong to the parent
\* category the correction resolves to, and that parent is configured
SubcategoryMismatch(correction) ==
    LET is_sub == HasParent(config, correction.category_id)
        parent == IF is_sub THEN config.categories[correction.category_id].parent_id
                  ELSE correction.category_id
        sub == correction.subcategory_id
    IN  /\ correction # NoCorrection
        /\ CategoryKnown(config, correction.category_id)
        /\ CategoryKnown(config, parent)
        /\ sub # None
        /\ ~(CategoryKnown(config, sub) /\ config.categories[sub].parent_id = parent)

\* C4 as stated: when the subcategory of a matching correction does not belong
\* to the resolved parent category the whole correction is skipped, the source
\* is not "correction" and the transaction falls through to overrides and rules.
C4_WholeCorrectionSkipped ==
    [][Categorize =>
        \A i \in TxnIdx :
            SubcategoryMismatch(CorrectionFor(transactions[i]))
            => /\ transactions'[i].category_source # "correction"
               /\ transactions'[i] =
                      CategorizeTransaction(WithoutCorrections(config), transactions[i])]_vars

\* C4 as amended: only the subcategory reference is dropped; the correction is
\* still applied with its resolved parent as main category, source
\* "correction" and confidence 1.0, and the subcategory is absent, or is the
\* correction's own category id when that is itself a subcategory.
C4_OnlySubcategoryDropped ==
    lastOp = "categorize" =>
        \A txn \in Txns :
            LET correction == CorrectionFor(txn)
                is_sub == HasParent(config, correction.category_id)
            IN  SubcategoryMismatch(correction)
                => /\ txn.category_source = "correction"
                   /\ txn.confidence_score = 1000
                   /\ txn.category = (IF is_sub
                                      THEN config.categories[correction.category_id].parent_id
                                      ELSE correction.category_id)
                   /\ txn.subcategory = (IF is_sub THEN correction.category_id ELSE None)

C4_Witness ==
    /\ lastOp = "categorize"
    /\ \E txn \in Txns :
          /\ SubcategoryMismatch(CorrectionFor(txn))
          /\ MatchesSomeRule(txn)
          /\ txn.category_source = "correction"
          /\ txn.subcategory = None

\* a correction that the categorizer acts on: present, with a configured category
CorrectionApplicable(txn) ==
    /\ CorrectionFor(txn) # NoCorrection
    /\ CategoryKnown(config, CorrectionFor(txn).category_id)

\* C5 as stated: a transaction with no applicable correction that matches a
\* manual override whose category exists gets that override's category with
\* source "manual" and confidence 1.0, whatever rules also match.
C5_AnyMatchingOverride ==
    lastOp = "categorize" =>
        \A txn \in Txns : \A k \in 1..Len(config.manual_overrides) :
            LET override == config.manual_overrides[k]
            IN  ( /\ ~CorrectionApplicable(txn)
                  /\ OverrideMatches(override, date_to_iso(txn.date), txn.amount,
                                     txn.description)
                  /\ CategoryKnown(config, override.category_id) )
                => /\ txn.category = override.category_id
                   /\ txn.category_source = "manual"
                   /\ txn.confidence_score = 1000

\* C5 as amended: a transaction with no applicable correction whose first
\* matching manual override, in priority order, names a category that exists
\* gets that override's category with source "manual" and confidence 1.0,
\* whatever rules also match.
C5_FirstMatchingOverride ==
    lastOp = "categorize" =>
        \A txn \in Txns :
            LET k == FindMatchingOverride(config, txn)
            IN  ( /\ ~CorrectionApplicable(txn)
                  /\ k # 0
                  /\ CategoryKnown(config, config.manual_overrides[k].category_id) )
                => /\ txn.category = config.manual_overrides[k].category_id
                   /\ txn.category_source = "manual"
                   /\ txn.confidence_score = 1000

C5_Witness ==
    /\ lastOp = "categorize"
    /\ \E txn \in Txns :
          /\ ~CorrectionApplicable(txn)
          /\ MatchesSomeRule(txn)
          /\ MatchesSomeOverride(txn)
          /\ txn.category_source = "manual"
          /\ txn.confidence_score = 1000

\* a manual override that the categorizer acts on: the first match, with a
\* configured category
OverrideApplicable(txn) ==
    LET k == FindMatchingOverride(config, txn)
    IN  k # 0 /\ CategoryKnown(config, config.manual_overrides[k].category_id)

RuleMatchesTxn(rule, txn) ==
    RuleMatches(rule, txn.description, txn.amount, txn.account_id).matched

\* positions, in the declared rule list, of the rules matching the transaction
MatchingDeclared(txn) ==
    {i \in 1..Len(config.rules_declared) : RuleMatchesTxn(config.rules_declared[i], txn)}

\* the matching rule of highest priority, the first declared among equals
BestDeclared(txn) ==
    LET M == MatchingDeclared(txn)
        d == config.rules_declared
    IN  CHOOSE i \in M :
            \A j \in M : \/ d[i].priority > d[j].priority
                         \/ d[i].priority = d[j].priority /\ i <= j

\* C6: when no correction or override applies, the rule categorize applies is
\* the matching rule of highest priority and, among matching rules of equal
\* priority, the one declared first in the configuration.
C6_HighestPriorityFirstDeclared ==
    lastOp = "categorize" =>
        \A txn \in Txns :
            ( /\ ~CorrectionApplicable(txn)
              /\ ~OverrideApplicable(txn)
              /\ MatchingDeclared(txn) # {} )
            => /\ txn.category_source = "rule"
               /\ txn.category_rule_id = config.rules_declared[BestDeclared(txn)].id

\* two matching rules of equal priority were declared and the first was applied
C6_Witness ==
    /\ lastOp = "categorize"
    /\ \E txn \in Txns : \E i, j \in MatchingDeclared(txn) :
          /\ i < j
          /\ config.rules_declared[i].priority = config.rules_declared[j].priority
          /\ txn.category_source = "rule"
          /\ txn.category_rule_id = config.rules_declared[i].id

\* the rule specifies regex patterns and nothing else, and none was accepted
OnlyRejectedPatterns(rule) ==
    /\ rule.regex_patterns # <<>>
    /\ rule.compiled_patterns = <<>>
    /\ rule.keywords = <<>>
    /\ rule.amount_min = NoAmt
    /\ rule.amount_max = NoAmt
    /\ rule.account_ids = {}

\* the rule specifies no criterion at all
NoCriteria(rule) ==
    /\ rule.regex_patterns = <<>>
    /\ rule.keywords = <<>>
    /\ rule.amount_min = NoAmt
    /\ rule.amount_max = NoAmt
    /\ rule.account_ids = {}

ConfiguredRules == {config.category_rules[i] : i \in 1..Len(config.category_rules)}

\* C7: a rule whose only criteria are regex patterns that were all rejected
\* matches no transaction; an active rule with no criteria at all matches
\* every transaction.
C7_RejectedPatternsMatchNothing ==
    \A rule \in ConfiguredRules : \A txn \in Txns :
        /\ OnlyRejectedPatterns(rule) => ~RuleMatchesTxn(rule, txn)
        /\ (NoCriteria(rule) /\ rule.is_active) => RuleMatchesTxn(rule, txn)

\* a rule of rejected patterns has the highest priority, yet the catch-all
\* rule of lower priority is the one that categorized the transaction
C7_Witness ==
    /\ lastOp = "categorize"
    /\ \E rej, all \in ConfiguredRules : \E txn \in Txns :
          /\ OnlyRejectedPatterns(rej)
          /\ NoCriteria(all)
          /\ rej.priority > all.priority
          /\ txn.category_source = "rule"
          /\ txn.category_rule_id = all.id

\* the category id a rule, override or correction named for the transaction
TargetOf(txn) ==
    CASE txn.category_source = "correction" -> CorrectionFor(txn).category_id
      [] txn.category_source = "manual" ->
            config.manual_overrides[FindMatchingOverride(config, txn)].category_id
      [] txn.category_source = "rule" ->
            config.category_rules[FindMatchingRule(config, txn)].category_id
      [] OTHER -> None

\* C8: whenever categorize applies a rule, a manual override or a correction
\* whose target category has a parent that exists in the configuration, the
\* main category becomes the parent id and the subcategory the target id.
C8_ParentBecomesMainCategory ==
    lastOp = "categorize" =>
        \A txn \in Txns :
            LET target == TargetOf(txn)
            IN  ( /\ txn.category_source \in {"rule", "manual", "correction"}
                  /\ HasParent(config, target)
                  /\ CategoryKnown(config, config.categories[target].parent_id) )
                => /\ txn.category = config.categories[target].parent_id
                   /\ txn.subcategory = target

\* category, subcategory, source and confidence of every transaction
CategorizationOf(txns) ==
    [i \in 1..Len(txns) |->
        <<txns[i].category, txns[i].subcategory, txns[i].category_source,
          txns[i].confidence_score>>]

\* C9: running categorize a second time, right after a first run and with the
\* same configuration, leaves category, subcategory, source and confidence of
\* every transaction as the first run left them.
C9_CategorizeIdempotent ==
    [][(lastOp = "categorize" /\ Categorize)
         => CategorizationOf(transactions') = CategorizationOf(transactions)]_vars

\* a correction, an override and a rule have each categorized a transaction
C9_Witness ==
    /\ lastOp = "categorize"
    /\ \E txn \in Txns : txn.category_source = "correction" /\ MatchesSomeRule(txn)
    /\ \E txn \in Txns : txn.category_source = "rule"

\* the target category of what categorize applies to a transaction: of its
\* correction if that names a configured category, otherwise of the first
\* matching manual override of a configured category, otherwise of the
\* matching rule
AppliedTarget(txn) ==
    IF CorrectionApplicable(txn) THEN CorrectionFor(txn).category_id
    ELSE IF OverrideApplicable(txn)
         THEN config.manual_overrides[FindMatchingOverride(config, txn)].category_id
    ELSE IF MatchesSomeRule(txn)
         THEN config.category_rules[FindMatchingRule(config, txn)].category_id
    ELSE None

\* the parent id of a category is set and is not a configured category
ParentUnresolved(target) ==
    /\ HasParent(config, target)
    /\ ~CategoryKnown(config, config.categories[target].parent_id)

\* C20: if the target category of an applied rule, manual override or
\* correction has a parent id that cannot be resolved in the configured
\* categories, the transaction is still categorized, with the raw target
\* category as its main category
C20_UnresolvedParentFallsBack ==
    lastOp = "categorize" =>
        \A txn \in Txns :
            LET target == AppliedTarget(txn)
            IN  (target # None /\ ParentUnresolved(target))
                => /\ txn.category = target
                   /\ ~txn.is_uncategorized

\* ------------------------------------------------------------------------
\* Properties of the categorization stages together
\* ------------------------------------------------------------------------
\* C1: after any sequence of Categorizer.categorize, categorize_uncategorized,
\* categorize_batch and validate_low_confidence, in any order and whatever
\* confidence the AI returns, every confidence_score lies in [0.0, 1.0].
C1_ConfidenceInRange ==
    \A i \in 1..Len(transactions) :
        /\ 0 <= transactions[i].confidence_score
        /\ transactions[i].confidence_score <= 1000

\* No answer of the model carries the confidence 1.0 or 0.0: an AI-assigned
\* score of 1.0 or 0.0 is an out-of-range answer (1.3, NaN, -0.2) clamped.
C1_Witness ==
    /\ \E i \in 1..Len(transactions) :
          /\ transactions[i].category_source \in {"ai", "ai_correction"}
          /\ transactions[i].confidence_score = 1000
    /\ \E i \in 1..Len(transactions) :
          /\ transactions[i].category_source = "ai"
          /\ transactions[i].confidence_score = 0

\* the categorization was made or reviewed by a person
HumanReviewed(txn) == txn.category_source \in {"manual", "correction"}

\* C28: the AI stages never overwrite a human-reviewed categorization: in any
\* sequence of categorize_uncategorized and validate_low_confidence, with a
\* validation threshold of at most 1.0 and whatever the AI answers, a
\* transaction whose source is manual or correction keeps its category,
\* subcategory, source and confidence 1.0, and categorize_uncategorized
\* changes only transactions that were uncategorized when it was called
C28_HumanReviewedKept ==
    [][lastOp' \in {"ai_categorize", "ai_validate"} =>
          /\ Len(transactions') = Len(transactions)
          /\ \A i \in 1..Len(transactions) :
                /\ HumanReviewed(transactions[i]) =>
                      /\ transactions'[i].category = transactions[i].category
                      /\ transactions'[i].subcategory = transactions[i].subcategory
                      /\ transactions'[i].category_source = transactions[i].category_source
                      /\ transactions'[i].confidence_score = 1000
                /\ (lastOp' = "ai_categorize" /\ ~transactions[i].is_uncategorized) =>
                      transactions'[i] = transactions[i]]_vars

\* a validation with the threshold at 1.0 corrected an AI categorization and
\* left a manual one and a reviewed one as they were
C28_Witness ==
    /\ lastOp = "ai_validate"
    /\ config.validation_threshold = 1000
    /\ \E i, j \in 1..Len(transactions) :
          /\ HumanReviewed(transactions[i])
          /\ transactions[i].confidence_score = 1000
          /\ transactions[j].category_source = "ai_correction"

\* the answer carries no index outside 1..n
IndicesInRange(n, response) ==
    \A k \in 1..Len(response.items) : response.items[k].index \in 1..n

\* C29: categorize_batch returns a result whose results list has exactly one
\* entry, possibly empty, per input transaction, in input order; when the AI
\* returns no malformed or out-of-range index, succeeded + failed equals the
\* number of input transactions, also when the request raises or the answer
\* is not a list
C29_BatchResultCounts ==
    result.kind = "batch_result" =>
        /\ Len(result.value.results) = result.n
        /\ \A i \in 1..result.n :
              result.value.results[i].category_id # None =>
                  \E k \in 1..Len(result.response.items) :
                      /\ result.response.items[k].index = i
                      /\ result.response.items[k].category_id
                            = result.value.results[i].category_id
        /\ IndicesInRange(result.n, result.response) =>
              result.value.succeeded + result.value.failed = result.n

\* ------------------------------------------------------------------------
\* Properties of the deduplicator
\* ------------------------------------------------------------------------
\* a transaction without its run-varying id
Content(txn) ==
    <<txn.date, txn.description, txn.amount, txn.account_id, txn.source_file,
      txn.source_line, txn.check_number>>

OriginalOf(txns, txn) == txns[CHOOSE i \in 1..Len(txns) : txns[i].id = txn.duplicate_of]

DuplicateEdge(txns, i) ==
    [txn |-> Content(txns[i]),
     flagged |-> txns[i].is_duplicate,
     original |-> IF txns[i].is_duplicate
                  THEN <<Content(OriginalOf(txns, txns[i]))>>
                  ELSE <<>>]

\* the duplicate graph by content: how many transactions of each content are
\* flagged as duplicate of which content, or are not flagged
DuplicateGraph(txns) ==
    LET edges == {DuplicateEdge(txns, i) : i \in 1..Len(txns)}
    IN  [e \in edges |-> Cardinality({i \in 1..Len(txns) : DuplicateEdge(txns, i) = e})]

\* C10: for two orderings of the same list of unflagged transactions,
\* find_duplicates yields the same duplicate graph by content: the same
\* transactions flagged, each as duplicate of the same original.
C10_OrderIndependentGraph ==
    lastOp = "find_duplicates" => DuplicateGraph(transactions) = DuplicateGraph(reordered)

\* the (account, amount) partitions of the collection, each in the order
\* find_duplicates compares it
SortedPartitions(txns) ==
    LET keys == GroupKeys(txns, 1, <<>>)
    IN  {SortedGroup(txns, GroupOf(txns, keys[g], 1), <<>>) : g \in 1..Len(keys)}

\* the positions before j of a sorted partition whose transaction qualifies
\* as a duplicate pair with the one at j
QualifyingSources(txns, sorted_group, j) ==
    {i \in 1..(j - 1) : AreDuplicates(txns[sorted_group[i]], txns[sorted_group[j]])}

\* C11: after find_duplicates, every transaction that has a qualifying earlier
\* transaction in its partition is flagged as duplicate of such a transaction,
\* also when every qualifying earlier transaction is itself flagged.
C11_FlaggedSourceStillFlags ==
    lastOp = "find_duplicates" =>
        \A sorted_group \in SortedPartitions(transactions) :
            \A j \in 1..Len(sorted_group) :
                LET sources == QualifyingSources(transactions, sorted_group, j)
                    txn2 == transactions[sorted_group[j]]
                IN  sources # {} =>
                        /\ txn2.is_duplicate
                        /\ \E i \in sources :
                              txn2.duplicate_of = transactions[sorted_group[i]].id

\* the two check numbers are both present and differ
ConflictingChecks(txn1, txn2) ==
    /\ HasCheck(txn1.check_number)
    /\ HasCheck(txn2.check_number)
    /\ txn1.check_number # txn2.check_number

\* the description similarity of the pair is exactly p thousandths
SimilarityIs(txn1, txn2, p) ==
    LET similarity == DescriptionSimilarity(txn1.description, txn2.description)
    IN  similarity.num * 1000 = p * similarity.den

\* the description similarity of the pair is at least p thousandths
SimilarityAtLeast(txn1, txn2, p) ==
    LET similarity == DescriptionSimilarity(txn1.description, txn2.description)
    IN  similarity.num * 1000 >= p * similarity.den

\* C12: two transactions of one account and one amount whose check numbers
\* do not conflict are duplicates exactly when their dates are at most one
\* day apart and their description similarity is at least 0.95 on the same
\* day, at least 0.90 on different days.
C12_SameDayThreshold ==
    \A i, j \in 1..Len(transactions) :
        LET txn1 == transactions[i]
            txn2 == transactions[j]
        IN  (/\ i # j
             /\ txn1.account_id = txn2.account_id
             /\ txn1.amount = txn2.amount
             /\ ~ConflictingChecks(txn1, txn2))
            => (AreDuplicates(txn1, txn2)
                  <=> /\ Abs(txn1.date - txn2.date) <= 1
                      /\ IF txn1.date = txn2.date
                         THEN SimilarityAtLeast(txn1, txn2, 950)
                         ELSE SimilarityAtLeast(txn1, txn2, 900))

\* find_duplicates has run on a collection with a same-day pair of similarity
\* exactly 0.90, which is no duplicate pair, and a pair one day apart of
\* similarity exactly 0.90, of which the later is flagged duplicate of the
\* earlier
C12_Witness ==
    /\ lastOp = "find_duplicates"
    /\ \E i, j \in 1..Len(transactions) :
          /\ i # j
          /\ transactions[i].date = transactions[j].date
          /\ GroupKey(transactions[i]) = GroupKey(transactions[j])
          /\ SimilarityIs(transactions[i], transactions[j], 900)
          /\ ~AreDuplicates(transactions[i], transactions[j])
    /\ \E i, j \in 1..Len(transactions) :
          /\ transactions[j].date = transactions[i].date + 1
          /\ GroupKey(transactions[i]) = GroupKey(transactions[j])
          /\ SimilarityIs(transactions[i], transactions[j], 900)
          /\ transactions[j].is_duplicate
          /\ transactions[j].duplicate_of = transactions[i].id

\* two transactions of one list qualify as a duplicate pair
QualifyingPair(txns, i, j) ==
    /\ i # j
    /\ GroupKey(txns[i]) = GroupKey(txns[j])
    /\ \/ AreDuplicates(txns[i], txns[j])
       \/ AreDuplicates(txns[j], txns[i])

\* the transactions of the partition of i that take part in a qualifying pair
Participants(txns, i) ==
    {k \in 1..Len(txns) :
        /\ GroupKey(txns[k]) = GroupKey(txns[i])
        /\ \E j \in 1..Len(txns) : QualifyingPair(txns, k, j)}

Members(group) == {group[k] : k \in 1..Len(group)}

\* C24: get_duplicate_groups returns, for each (account id, amount) partition
\* with at least one qualifying duplicate pair, exactly one group, made of
\* exactly the transactions of the partition that take part in a qualifying
\* pair; a partition without a qualifying pair yields no group, and no
\* transaction appears in two groups
C24_OneGroupPerPartition ==
    result.kind = "duplicate_groups" =>
        LET groups == result.groups
            txns == transactions
        IN  /\ \A i \in 1..Len(txns) :
                  Participants(txns, i) # {} =>
                      Cardinality({g \in 1..Len(groups) :
                                      Members(groups[g]) = Participants(txns, i)}) = 1
            /\ \A g \in 1..Len(groups) :
                  /\ groups[g] # <<>>
                  /\ Cardinality(Members(groups[g])) = Len(groups[g])
                  /\ \E i \in 1..Len(txns) : Members(groups[g]) = Participants(txns, i)
            /\ \A g, h \in 1..Len(groups) :
                  g # h => Members(groups[g]) \cap Members(groups[h]) = {}

\* three transactions of one partition, the first and the third not
\* duplicates of each other, in one group
C24_Witness ==
    /\ result.kind = "duplicate_groups"
    /\ \E g \in 1..Len(result.groups) : \E a, b, c \in Members(result.groups[g]) :
          /\ QualifyingPair(transactions, a, b)
          /\ QualifyingPair(transactions, b, c)
          /\ a # c
          /\ ~QualifyingPair(transactions, a, c)

\* the sort key of find_duplicates: a is not after b in canonical order
NotAfter(a, b) == ~SortKeyLess(b, a)

\* C26: after find_duplicates on previously unflagged transactions,
\* is_duplicate is true exactly when duplicate_of is set, and duplicate_of of a
\* flagged transaction is the id of a transaction of the same (account,
\* amount) partition that precedes it in canonical order and is not flagged
\* itself; the first transaction of a partition is never flagged
C26_OriginalsAreUnflagged ==
    lastOp = "find_duplicates" =>
        \A txns \in {transactions, reordered} : \A i \in 1..Len(txns) :
            /\ txns[i].is_duplicate <=> txns[i].duplicate_of # NoId
            /\ txns[i].is_duplicate =>
                  \E j \in 1..Len(txns) :
                      /\ j # i
                      /\ txns[j].id = txns[i].duplicate_of
                      /\ GroupKey(txns[j]) = GroupKey(txns[i])
                      /\ NotAfter(txns[j], txns[i])
                      /\ ~txns[j].is_duplicate
            /\ (\A j \in 1..Len(txns) :
                    (j # i /\ GroupKey(txns[j]) = GroupKey(txns[i]))
                        => SortKeyLess(txns[i], txns[j]))
                  => ~txns[i].is_duplicate

\* a chain of three qualifying transactions: the second is flagged, the third
\* is not
C26_Witness ==
    /\ lastOp = "find_duplicates"
    /\ \E a, b, c \in 1..Len(transactions) :
          /\ QualifyingPair(transactions, a, b)
          /\ QualifyingPair(transactions, b, c)
          /\ transactions[b].is_duplicate
          /\ transactions[b].duplicate_of = transactions[a].id
          /\ ~transactions[a].is_duplicate
          /\ ~transactions[c].is_duplicate

\* C27: find_duplicates is idempotent: a second run on the same list, with the
\* flags of the first run, changes no is_duplicate flag and no duplicate_of
C27_FindDuplicatesIdempotent ==
    [][(lastOp = "find_duplicates" /\ lastOp' = "find_duplicates")
          => (transactions' = transactions /\ reordered' = reordered)]_vars

\* a second run found flags of the first
C27_Witness ==
    /\ lastOp = "find_duplicates"
    /\ \E i \in 1..Len(transactions) : transactions[i].is_duplicate
    /\ find_duplicates(transactions) = transactions

\* ------------------------------------------------------------------------
\* Properties of the balance calculator
\* ------------------------------------------------------------------------
\* the two runs of the stage
Runs == {transactions, reordered}

\* the transaction is dated strictly before the opening-balance date of its
\* account
ExcludedByCutoff(txn) ==
    /\ AccountKnown(config, txn.account_id)
    /\ config.accounts[txn.account_id].opening_balance_date # <<>>
    /\ txn.date < config.accounts[txn.account_id].opening_balance_date[1]

\* the opening balance of the account, zero when the account is unknown or
\* has none
ExpectedOpening(account_id) ==
    IF account_id \in DOMAIN config.accounts
    THEN IF config.accounts[account_id].opening_balance = <<>> THEN 0
         ELSE config.accounts[account_id].opening_balance[1]
    ELSE 0

\* the positions of the account's transactions in canonical order: (date,
\* description, amount, source file, source line or 0), ties in list order
CanonicalOrder(txns, account_id) ==
    SortedGroup(txns, AccountTxns(txns, account_id, 1), <<>>)

\* the sum of the signed amounts of the transactions not excluded by the
\* cutoff among the first k of the order
RECURSIVE SumNotExcluded(_, _, _)
SumNotExcluded(txns, order, k) ==
    IF k = 0 THEN 0
    ELSE (IF ExcludedByCutoff(txns[order[k]]) THEN 0 ELSE txns[order[k]].amount)
         + SumNotExcluded(txns, order, k - 1)

\* C13: after calculate_balances the running balance of every transaction
\* not excluded by the cutoff is the opening balance of its account plus the
\* signed amounts of the account's non-excluded transactions up to and
\* including it in canonical order.
C13_RunningBalanceIsPrefixSum ==
    lastOp = "calculate_balances" =>
        \A txns \in Runs : \A i \in 1..Len(txns) :
            LET order == CanonicalOrder(txns, txns[i].account_id)
            IN  \A k \in 1..Len(order) :
                    ~ExcludedByCutoff(txns[order[k]]) =>
                        txns[order[k]].running_balance =
                            <<ExpectedOpening(txns[i].account_id)
                              + SumNotExcluded(txns, order, k)>>

\* calculate_balances has run on an account with an opening balance and a
\* cutoff, with a transaction before the cutoff and two on or after it
C13_Witness ==
    /\ lastOp = "calculate_balances"
    /\ \E i, j, k \in 1..Len(transactions) :
          /\ j # k
          /\ transactions[i].account_id = transactions[j].account_id
          /\ transactions[j].account_id = transactions[k].account_id
          /\ ExpectedOpening(transactions[i].account_id) # 0
          /\ ExcludedByCutoff(transactions[i])
          /\ ~ExcludedByCutoff(transactions[j])
          /\ ~ExcludedByCutoff(transactions[k])
          /\ transactions[k].running_balance =
                <<ExpectedOpening(transactions[i].account_id)
                  + transactions[j].amount + transactions[k].amount>>

\* the transactions of the collection that the cutoff does not exclude
NotExcluded(txns) == SelectSeq(txns, LAMBDA txn : ~ExcludedByCutoff(txn))

\* C14: after calculate_balances a transaction dated strictly before the
\* opening-balance date of its account has no running balance, every other
\* transaction has one, and the running balances are those of the collection
\* without the transactions before the cutoff.
C14_BeforeCutoffUnknown ==
    lastOp = "calculate_balances" =>
        \A txns \in Runs :
            /\ \A i \in 1..Len(txns) :
                  (txns[i].running_balance = <<>>) <=> ExcludedByCutoff(txns[i])
            /\ LET kept == NotExcluded(txns)
                   alone == calculate_balances(config, kept)
               IN  \A m \in 1..Len(kept) :
                       kept[m].running_balance = alone[m].running_balance

\* calculate_balances has run on a transaction before the cutoff that was
\* parsed with a balance, and on a later transaction of the same account
C14_Witness ==
    /\ lastOp = "calculate_balances"
    /\ \E i, j \in 1..Len(transactions) :
          /\ transactions[i].account_id = transactions[j].account_id
          /\ transactions[i].date = BalAtm.date
          /\ transactions[i].description = BalAtm.description
          /\ BalAtm.balance # <<>>
          /\ ExcludedByCutoff(transactions[i])
          /\ transactions[i].running_balance = <<>>
          /\ ~ExcludedByCutoff(transactions[j])
          /\ transactions[j].running_balance # <<>>

\* the closing balance the account has in the collection: the opening
\* balance plus the signed amounts of the transactions not excluded
ExpectedClosing(txns, account_id) ==
    LET order == CanonicalOrder(txns, account_id)
    IN  ExpectedOpening(account_id) + SumNotExcluded(txns, order, Len(order))

\* C15: after calculate_balances, get_account_summary reports for each
\* account the opening balance plus the signed amounts of the transactions
\* not excluded by the cutoff as closing balance, the same in two runs that
\* differ in the ids of the transactions only.
C15_ClosingBalance ==
    (lastOp = "calculate_balances" /\ result.kind = "account_summary") =>
        /\ \A account_id \in DOMAIN result.first :
              result.first[account_id].closing_balance
                  = ExpectedClosing(transactions, account_id)
        /\ \A account_id \in DOMAIN result.second :
              result.second[account_id].closing_balance
                  = ExpectedClosing(reordered, account_id)
        /\ result.first = result.second

\* ------------------------------------------------------------------------
\* Properties of the anomaly detector
\* ------------------------------------------------------------------------
\* the positions of the transactions of one account
OfAccount(txns, account_id) == {i \in 1..Len(txns) : txns[i].account_id = account_id}

\* the k-th date of an account in chronological order
KthDate(txns, account_id, k) ==
    CHOOSE d \in {txns[i].date : i \in OfAccount(txns, account_id)} :
        /\ Cardinality({i \in OfAccount(txns, account_id) : txns[i].date < d}) < k
        /\ Cardinality({i \in OfAccount(txns, account_id) : txns[i].date <= d}) >= k

\* the severity of a difference of days under the two thresholds
SeverityOf(anomaly_config, days) ==
    IF days > anomaly_config.date_gap_alert_days THEN "alert"
    ELSE IF days > anomaly_config.date_gap_warning_days THEN "warning"
    ELSE "none"

\* the records of one account in a list of gap records, in order
GapsReported(gaps, account_id) == SelectSeq(gaps, LAMBDA g : g.account_id = account_id)

\* the chronologically consecutive pairs of an account that lie further
\* apart than a threshold, in order
RECURSIVE PairsApart(_, _, _, _)
PairsApart(anomaly_config, txns, account_id, k) ==
    IF k > Cardinality(OfAccount(txns, account_id)) THEN <<>>
    ELSE LET start == KthDate(txns, account_id, k - 1)
             end == KthDate(txns, account_id, k)
         IN  (IF SeverityOf(anomaly_config, end - start) = "none" THEN <<>>
              ELSE <<[start_date |-> start, end_date |-> end]>>)
             \o PairsApart(anomaly_config, txns, account_id, k + 1)

\* C16: get_date_gaps reports at most one record for each pair of
\* chronologically consecutive transactions of one account: an alert if the
\* difference in calendar days is greater than the alert threshold, otherwise
\* a warning if it is greater than the warning threshold, otherwise nothing;
\* no pair has both an alert and a warning, and gap_days is the difference in
\* days
C16_OneSeverityPerGap ==
    result.kind = "date_gaps" =>
        /\ \A k \in 1..Len(result.gaps) :
              LET g == result.gaps[k]
              IN  /\ g.gap_days = g.end_date - g.start_date
                  /\ g.severity = SeverityOf(config.anomaly, g.gap_days)
                  /\ g.severity \in {"alert", "warning"}
        /\ \A account_id \in {transactions[i].account_id : i \in 1..Len(transactions)} :
              LET reported == GapsReported(result.gaps, account_id)
                  apart == PairsApart(config.anomaly, transactions, account_id, 2)
              IN  /\ Len(reported) = Len(apart)
                  /\ \A k \in 1..Len(reported) :
                        /\ reported[k].start_date = apart[k].start_date
                        /\ reported[k].end_date = apart[k].end_date
        /\ \A k \in 1..Len(result.gaps) :
              result.gaps[k].account_id
                  \in {transactions[i].account_id : i \in 1..Len(transactions)}

\* two transactions 40 days apart under the default thresholds give exactly
\* one alert with gap_days 40, and a pair 8 days apart gives one warning
C16_Witness ==
    /\ result.kind = "date_gaps"
    /\ config.anomaly.date_gap_warning_days = 7
    /\ config.anomaly.date_gap_alert_days = 30
    /\ \E k \in 1..Len(result.gaps) :
          /\ result.gaps[k].gap_days = 8
          /\ result.gaps[k].severity = "warning"
    /\ \E k \in 1..Len(result.gaps) :
          /\ result.gaps[k].gap_days = 32
          /\ result.gaps[k].severity = "alert"
    /\ Len(result.gaps) = 2

\* a transaction carries a reason with this text
HasReason(txn, text) ==
    \E k \in 1..Len(txn.anomaly_reasons) : txn.anomaly_reasons[k].text = text

\* the reasons of the custom patterns that match a transaction
MatchingCustomReasons(anomaly_config, txn) ==
    {anomaly_config.custom_patterns[k].reason :
        k \in {j \in 1..Len(anomaly_config.custom_patterns) :
                  CustomPatternMatches(anomaly_config.custom_patterns[j].pattern, txn)}}

\* C17: detect_anomalies records on each transaction every applicable reason:
\* the large-transaction, fee, cash-advance, custom-pattern and large
\* peer-payment checks are independent, so a check that fires does not
\* suppress the reason of another applicable check
C17_EveryApplicableReason ==
    lastOp = "detect_anomalies" =>
        \A i \in 1..Len(transactions) :
            LET txn == transactions[i]
            IN  /\ IsLargeTransaction(config.anomaly, txn)
                      => HasReason(txn, "Large transaction")
                /\ IsFee(txn) => HasReason(txn, "Fee or charge detected")
                /\ IsCashAdvance(config.anomaly, txn)
                      => HasReason(txn, "Cash advance detected")
                /\ MatchingCustomReasons(config.anomaly, txn) # {}
                      => \E text \in MatchingCustomReasons(config.anomaly, txn) :
                             HasReason(txn, text)
                /\ PeerPaymentReason(txn) # NoReason
                      => HasReason(txn, PeerPaymentReason(txn).text)

\* ------------------------------------------------------------------------
\* Properties of MatchResult
\* ------------------------------------------------------------------------
\* C18: constructing a MatchResult with a confidence below 0.0 or above 1.0
\* fails with an error and the value is never clamped; with a confidence of
\* exactly 0.0 or exactly 1.0, and anywhere between, it succeeds and keeps the
\* given value
C18_OutOfRangeRaises ==
    result.kind = "match_result" =>
        /\ (result.given < 0 \/ result.given > 1000) => result.value.raised
        /\ (0 <= result.given /\ result.given <= 1000) => ~result.value.raised
        /\ ~result.value.raised =>
              /\ result.value.matched
              /\ result.value.confidence = result.given

\* a confidence of 1.001 was refused
C18_Witness ==
    /\ result.kind = "match_result"
    /\ result.given = 1001
    /\ result.value.raised

\* ------------------------------------------------------------------------
\* Properties of the AI client
\* ------------------------------------------------------------------------
\* C30: with a budget limit configured, send_message raises
\* BudgetExceededError without issuing a request whenever the estimated cost
\* exceeds the remaining budget, and after any sequence of send_message
\* calls, whatever token usage the API reports, current_spend never exceeds
\* budget_limit
C30_SpendWithinBudget ==
    (result.kind = "ai_client" /\ result.budget_limit # NoAmt) =>
        /\ (lastOp = "send_message" /\ result.estimated_cost > result.remaining) =>
              (result.outcome = "BudgetExceededError" /\ ~result.issued)
        /\ result.current_spend <= result.budget_limit

\* ------------------------------------------------------------------------
\* Properties of fee detection
\* ------------------------------------------------------------------------
\* word occurs in text with no letter, digit or underscore next to it
WholeWordIn(word, text) ==
    \E i \in 0..(Len(text) - Len(word)) :
        /\ SubSeq(text, i + 1, i + Len(word)) = word
        /\ i = 0 \/ ~IsWordChar(text[i])
        /\ i + Len(word) = Len(text) \/ ~IsWordChar(text[i + Len(word) + 1])

HasPosPrefix(text) ==
    \E prefix \in {<<"T", "S", "T", "*">>, <<"S", "Q", " ", "*">>, <<"S", "Q", "U", "*">>, <<"T", "O", "A", "S", "T", "*">>} :
        StartsWith(text, prefix)

HasStrongKeyword(text) ==
    \E keyword \in {<<"F", "E", "E">>, <<"P", "E", "N", "A", "L", "T", "Y">>, <<"O", "V", "E", "R", "D", "R", "A", "F", "T">>, <<"N", "S", "F">>,
                     <<"L", "A", "T", "E", " ", "F", "E", "E">>, <<"A", "N", "N", "U", "A", "L", " ", "F", "E", "E">>,
                     <<"M", "O", "N", "T", "H", "L", "Y", " ", "F", "E", "E">>} :
        WholeWordIn(keyword, text)

HasTransferKeyword(text) ==
    \E keyword \in {<<"T", "R", "A", "N", "S", "F", "E", "R">>, <<"V", "E", "N", "M", "O">>, <<"Z", "E", "L", "L", "E">>,
                     <<"P", "A", "Y", "P", "A", "L">>, <<"A", "C", "H">>, <<"W", "I", "R", "E">>} :
        Contains(text, keyword)

\* C25: fee detection applies its rules in a fixed precedence: a description
\* starting with a POS merchant prefix is never a fee, even with a strong fee
\* keyword; otherwise a strong fee keyword as a whole word flags a fee, even
\* with a transfer keyword; otherwise a transfer or payment-app keyword makes
\* it a non-fee; otherwise the weak keyword CHARGE as a whole word flags a fee
C25_FeePrecedence ==
    result.kind = "is_fee" =>
        LET text == UpperStr(result.description)
        IN  /\ HasPosPrefix(text) => ~result.value
            /\ (~HasPosPrefix(text) /\ HasStrongKeyword(text)) => result.value
            /\ (~HasPosPrefix(text) /\ ~HasStrongKeyword(text) /\ HasTransferKeyword(text))
                  => ~result.value
            /\ (~HasPosPrefix(text) /\ ~HasStrongKeyword(text) /\ ~HasTransferKeyword(text))
                  => (result.value <=> WholeWordIn(<<"C", "H", "A", "R", "G", "E">>, text))

\* a strong fee keyword together with a transfer keyword is a fee
C25_Witness ==
    /\ result.kind = "is_fee"
    /\ ~HasPosPrefix(UpperStr(result.description))
    /\ HasStrongKeyword(UpperStr(result.description))
    /\ HasTransferKeyword(UpperStr(result.description))
    /\ result.value

\* ------------------------------------------------------------------------
\* Properties of CategoryRule.matches
\* ------------------------------------------------------------------------
\* the match type of a MatchResult the rule returned
MatchTypeOf(rule, value) ==
    IF value.matched_by = "regex"
    THEN IF StartsWith(value.matched_value, <<"^">>) THEN "anchored" ELSE "regex"
    ELSE IF value.matched_by = "keyword"
         THEN IF rule.match_mode = "word" THEN "word" ELSE "substring"
    ELSE "filter"

\* the documented range of a match type, in thousandths
DocumentedRange(match_type) ==
    CASE match_type = "anchored" -> <<920, 1000>>
      [] match_type = "regex" -> <<850, 980>>
      [] match_type = "word" -> <<770, 950>>
      [] match_type = "substring" -> <<700, 880>>
      [] OTHER -> <<500, 700>>

\* C21: the confidence of every MatchResult returned by CategoryRule.matches
\* lies within the documented range of its match type: anchored regex
\* 0.92-1.00, non-anchored regex 0.85-0.98, word-boundary keyword 0.77-0.95,
\* substring keyword 0.70-0.88, amount/account filter only 0.50-0.70
C21_ConfidenceInDocumentedRange ==
    (result.kind = "rule_match" /\ result.value.matched) =>
        LET range == DocumentedRange(MatchTypeOf(result.rule, result.value))
        IN  range[1] <= result.value.confidence /\ result.value.confidence <= range[2]

\* the factor of the base score of a match type
BaseFactor(match_type) ==
    CASE match_type = "anchored" -> "Anchored regex match"
      [] match_type = "regex" -> "Regex pattern match"
      [] match_type = "word" -> "Word boundary keyword"
      [] match_type = "substring" -> "Substring keyword"
      [] OTHER -> "Matched by amount/account filter only"

\* the factors of the bonuses applied to a match, in the order the bonuses
\* are applied
BonusFactors(rule, value, description) ==
    LET match_type == MatchTypeOf(rule, value)
        at_start == StartsWith(LowerStr(description), LowerStr(value.matched_value))
        width == rule.amount_max - rule.amount_min
        when(applied, factor) == IF applied THEN <<factor>> ELSE <<>>
    IN  (CASE match_type = "anchored" ->
                  when(Len(value.matched_value) > 10, "Long pattern")
                  \o when(Len(value.matched_value) > 20, "Long pattern")
           [] match_type = "regex" ->
                  when(Contains(value.matched_value, <<"\\", "b">>), "Word boundary in pattern")
           [] match_type = "word" ->
                  when(at_start, "Keyword at description start")
                  \o when(Len(value.matched_value) > 8, "Long keyword")
           [] match_type = "substring" ->
                  when(at_start, "Keyword at description start")
                  \o when(Len(value.matched_value) > 10, "Long keyword")
           [] OTHER ->
                  when(rule.amount_min # NoAmt /\ rule.amount_max # NoAmt
                           /\ 0 < width /\ width < 100000,
                       "Narrow amount range"))
        \o when(rule.priority > 50, "High priority rule")

\* C22: the factors of every successful rule match are one entry for the base
\* score followed by one entry for each bonus applied to the score, in the
\* order the bonuses were applied; no applied bonus is missing
C22_EveryBonusIsAFactor ==
    (result.kind = "rule_match" /\ result.value.matched) =>
        result.value.factors
            = <<BaseFactor(MatchTypeOf(result.rule, result.value))>>
              \o BonusFactors(result.rule, result.value, result.description)

\* the account list, the amount window and the active flag of a rule let the
\* transaction through
FiltersPass(rule, amount, account_id) ==
    /\ rule.is_active
    /\ rule.account_ids = {} \/ account_id \in rule.account_ids
    /\ rule.amount_min = NoAmt \/ Abs(amount) >= rule.amount_min
    /\ rule.amount_max = NoAmt \/ Abs(amount) <= rule.amount_max

SomeKeywordMatches(rule, description) ==
    \E i \in 1..Len(rule.keywords) :
        IF rule.match_mode = "word"
        THEN WordBoundarySearch(LowerStr(rule.keywords[i]), LowerStr(description))
        ELSE Contains(LowerStr(description), LowerStr(rule.keywords[i]))

SomeCompiledPatternMatches(rule, description) ==
    \E i \in 1..Len(rule.regex_patterns) :
        /\ IsSafePattern(rule.regex_patterns[i])
        /\ CompileOk(rule.regex_patterns[i])
        /\ RegexSearch(rule.regex_patterns[i], description)

\* C23: an active rule whose account list and amount window pass matches, if
\* it has keywords and patterns, iff some keyword or some compiled pattern
\* matches; if it has keywords only, iff some keyword matches; if it has
\* patterns only, iff some compiled pattern matches; if it has neither, always.
\* An inactive rule, or one whose account or amount filter fails, never matches
C23_CriteriaComposition ==
    result.kind = "rule_match" =>
        LET rule == result.rule
            by_keyword == SomeKeywordMatches(rule, result.description)
            by_pattern == SomeCompiledPatternMatches(rule, result.description)
            criteria ==
                IF rule.keywords # <<>> /\ rule.regex_patterns # <<>>
                THEN by_keyword \/ by_pattern
                ELSE IF rule.keywords # <<>> THEN by_keyword
                ELSE IF rule.regex_patterns # <<>> THEN by_pattern
                ELSE TRUE
        IN  result.value.matched
                <=> (FiltersPass(rule, result.amount, result.account_id) /\ criteria)

\* a rule with keywords and patterns matched by a pattern alone
C23_Witness ==
    /\ result.kind = "rule_match"
    /\ result.rule.keywords # <<>>
    /\ result.rule.regex_patterns # <<>>
    /\ ~SomeKeywordMatches(result.rule, result.description)
    /\ result.value.matched
    /\ result.value.matched_by = "regex"

\* ------------------------------------------------------------------------
\* Properties of the report
\* ------------------------------------------------------------------------
\* the sum of the signed amounts of the transactions of one year whose
\* category is an expense category of this name
RECURSIVE SignedExpenseSum(_, _, _)
SignedExpenseSum(year, cat_name, k) ==
    IF k > Len(transactions) THEN 0
    ELSE (IF /\ CategoryTypeOf(config, transactions[k]) = "expense"
             /\ YearOf(transactions[k].date) = year
             /\ config.categories[transactions[k].category].name = cat_name
          THEN transactions[k].amount
          ELSE 0)
         + SignedExpenseSum(year, cat_name, k + 1)

\* C19: in generate_pl_summary a transaction of positive amount (a refund) in
\* an expense category reduces the yearly expense total of the category: the
\* total is the negated sum of the signed amounts, and may be negative
C19_RefundReducesExpense ==
    result.kind = "pl_summary" =>
        \A year \in DOMAIN result.summary.expense_by_year :
            \A cat_name \in DOMAIN result.summary.expense_by_year[year] :
                result.summary.expense_by_year[year][cat_name]
                    = 0 - SignedExpenseSum(year, cat_name, 1)

====
